---- MODULE Spec2Model ----
(***************************************************************************)
(* A model of pyrv, a single-hart RV32I instruction-set simulator.         *)
(*                                                                         *)
(* The state is the state of one pyrv.harts.Hart: its program counter,     *)
(* register file, instruction and data memory, sim-control peripheral and  *)
(* the slave-port table of its system bus.  The actions are the operations *)
(* a driver of the simulator performs on the hart: load() of an image,     *)
(* step(), exec() of a decoded instruction, and the set-up calls (register *)
(* writes, pc writes, add_slave_port, add_trigger).                        *)
(*                                                                         *)
(* Spec drives the hart as a processor.  Three further specifications      *)
(* drive its parts by their own methods: SpecBus the system bus (read,     *)
(* write, add_slave_port), SpecMem the memories (Memory.read, Memory.write *)
(* and load), SpecPeri the memory-mapped peripheral (alloc_register,       *)
(* set_register, read).                                                    *)
(*                                                                         *)
(* Python integers are unbounded and the registers are 32 bits wide, while *)
(* the integers of the model checker stop at 2^31 - 1.  A Python integer n *)
(* is therefore held as the pair <<hi, lo>> with n = hi * 2^16 + lo and    *)
(* 0 <= lo < 2^16 (hi is negative for a negative n), and the arithmetic of *)
(* the source is carried out on these pairs.                               *)
(***************************************************************************)
EXTENDS Integers, Sequences, FiniteSets, TLC

(***************************************************************************)
(* Python integers as pairs <<hi, lo>>                                     *)
(***************************************************************************)

LIMB == 2 ^ 16

\* the Python integer hi * 2^16 + lo
W(hi, lo) == <<hi, lo>>

\* a small integer as a Python integer
P(n) == <<n \div LIMB, n % LIMB>>

\* a Python integer known to be small, as an integer
ToInt(a) == a[1] * LIMB + a[2]

PAdd(a, b) ==
    LET s == a[2] + b[2]
    IN  <<a[1] + b[1] + (s \div LIMB), s % LIMB>>

PNeg(a) == IF a[2] = 0 THEN <<-a[1], 0>> ELSE <<-a[1] - 1, LIMB - a[2]>>

PSub(a, b) == PAdd(a, PNeg(b))

PLt(a, b) == a[1] < b[1] \/ (a[1] = b[1] /\ a[2] < b[2])

PLe(a, b) == a = b \/ PLt(a, b)

\* bitwise operators of Python on (two's complement, unbounded) integers
RECURSIVE BitAnd(_, _)
BitAnd(x, y) ==
    IF x = 0 \/ y = 0 THEN 0
    ELSE IF x = -1 THEN y
    ELSE IF y = -1 THEN x
    ELSE ((x % 2) * (y % 2)) + 2 * BitAnd(x \div 2, y \div 2)

RECURSIVE BitOr(_, _)
BitOr(x, y) ==
    IF x = 0 THEN y
    ELSE IF y = 0 THEN x
    ELSE IF x = -1 \/ y = -1 THEN -1
    ELSE (IF (x % 2) + (y % 2) > 0 THEN 1 ELSE 0) + 2 * BitOr(x \div 2, y \div 2)

RECURSIVE BitXor(_, _)
BitXor(x, y) ==
    IF x = 0 THEN y
    ELSE IF y = 0 THEN x
    ELSE IF x = -1 /\ y = -1 THEN 0
    ELSE (((x % 2) + (y % 2)) % 2) + 2 * BitXor(x \div 2, y \div 2)

PAnd(a, b) == <<BitAnd(a[1], b[1]), BitAnd(a[2], b[2])>>

POr(a, b) == <<BitOr(a[1], b[1]), BitOr(a[2], b[2])>>

PXor(a, b) == <<BitXor(a[1], b[1]), BitXor(a[2], b[2])>>

\* ~a
PInv(a) == <<-a[1] - 1, LIMB - 1 - a[2]>>

\* a >> k for a small k >= 0
RECURSIVE PShr(_, _)
PShr(a, k) ==
    IF k = 0 THEN a
    ELSE IF k >= 16 THEN PShr(<<a[1] \div LIMB, a[1] % LIMB>>, k - 16)
    ELSE <<a[1] \div (2 ^ k), ((a[1] % (2 ^ k)) * (2 ^ (16 - k))) + (a[2] \div (2 ^ k))>>

\* a << k for a small k >= 0, where the result stays below 2^46 in size
RECURSIVE PShl(_, _)
PShl(a, k) ==
    IF k = 0 THEN a
    ELSE IF k >= 16 THEN PShl(<<a[1] * LIMB + a[2], 0>>, k - 16)
    ELSE LET l == a[2] * (2 ^ k)
         IN  <<a[1] * (2 ^ k) + (l \div LIMB), l % LIMB>>

Zero == <<0, 0>>

(***************************************************************************)
(* helpers.py: Register, MutableRegister, se                               *)
(***************************************************************************)

WIDTH == 32

\* Register.MASK = (1 << WIDTH) - 1
MASK == <<LIMB - 1, LIMB - 1>>

\* the value as it is
Unmasked(value) == value

\* Register._masked: value & MASK
Masked(value) == <<value[1] % LIMB, value[2]>>

\* Register._int_or_reg: the operand (an int, or the value read from a
\* Register) masked to 32 bits
IntOrReg(value) == Masked(value)

\* Register.__add__
RegAdd(self, other) == Masked(PAdd(self, IntOrReg(other)))

\* Register.__sub__
RegSub(self, other) == Masked(PSub(self, IntOrReg(other)))

\* a mod 2^k for 0 <= k <= 32 and a >= 0
PMod2(a, k) ==
    IF k >= 16 THEN <<a[1] % (2 ^ (k - 16)), a[2]>> ELSE <<0, a[2] % (2 ^ k)>>

\* Register.__lshift__: masked(read << other).  The bits of read at or above
\* 32 - other are shifted past bit 31 and masked away, so the shift is done
\* on the bits below; a shift by 32 or more leaves nothing.
RegShl(self, other) ==
    LET s == IntOrReg(other)
    IN  IF PLe(P(WIDTH), s) THEN Zero
        ELSE Masked(PShl(PMod2(self, WIDTH - ToInt(s)), ToInt(s)))

\* Register.__rshift__: masked(read >> other); read is below 2^32
RegShr(self, other) ==
    LET s == IntOrReg(other)
    IN  IF PLe(P(WIDTH), s) THEN Zero ELSE Masked(PShr(self, ToInt(s)))

\* Register.__xor__, __and__, __or__: no mask on the result
RegXor(self, other) == PXor(self, IntOrReg(other))

RegAnd(self, other) == PAnd(self, IntOrReg(other))

RegOr(self, other) == POr(self, IntOrReg(other))

\* Register.__lt__, __ge__, __eq__, __ne__
RegLt(self, other) == PLt(self, IntOrReg(other))

RegGe(self, other) == ~PLt(self, IntOrReg(other))

RegEq(self, other) == self = IntOrReg(other)

RegNe(self, other) == self # IntOrReg(other)

\* the value stored as it is
WriteUnmasked(value) == value

\* MutableRegister.write: the value stored
MutableWrite(value) == Masked(value)

\* the value without sign extension
seUnsigned(value, bits) == value

\* se(value, bits): sign_bit = 1 << bits - 1; (value ^ sign_bit) - sign_bit
se(value, bits) ==
    LET sign_bit == PShl(P(1), bits - 1)
    IN  PSub(PXor(value, sign_bit), sign_bit)

\* a shift that fills with zeros
LogicalShr(x, s) == IF PLe(P(WIDTH), s) THEN Zero ELSE PShr(Masked(x), ToInt(s))

\* x >> s of Python for a value x of at most 32 bits and any s >= 0: beyond
\* 32 places only the sign is left
SignedShr(x, s) == IF PLe(P(WIDTH), s) THEN PShr(x, WIDTH) ELSE PShr(x, ToInt(s))

(***************************************************************************)
(* models.py: RegisterFile                                                 *)
(***************************************************************************)

NREGS == 32

RegIdx == 0 .. (NREGS - 1)

\* RegisterFile.__init__: Register() followed by 31 MutableRegister()
RegisterFileInit == [i \in RegIdx |-> Zero]

\* a register file whose item 0 is a MutableRegister like the others
RfSetAll(rf, key, value) == [rf EXCEPT ![key] = MutableWrite(value)]

\* RegisterFile.__setitem__: r = self[key]; r.write(i_val).  Item 0 is a
\* Register, whose write does nothing; the others are MutableRegisters.
RfSet(rf, key, value) ==
    IF key = 0 THEN rf ELSE [rf EXCEPT ![key] = MutableWrite(value)]

(***************************************************************************)
(* models.py: Memory                                                       *)
(*                                                                         *)
(* A memory is its numpy array: `size` elements of `width` bytes each, all *)
(* zero at first.  The array is held as a function from the indices of the *)
(* non-zero elements to their values; every other element is zero.         *)
(***************************************************************************)

KIB == 1024

\* Memory.__init__(size, width): numpy.zeros(size * 1024, width2dtype[width])
MemoryInit(size, width) ==
    [size |-> size * KIB, width |-> width, contents |-> <<>>]

\* InstructionMemory.__init__: super().__init__(2 * 1024, 4)
InstructionMemoryInit == MemoryInit(2 * 1024, 4)

\* DataMemory.__init__: super().__init__(6 * 1024)
DataMemoryInit == MemoryInit(6 * 1024, 1)

\* element i of the array
Elem(mem, i) == IF i \in DOMAIN mem.contents THEN mem.contents[i] ELSE Zero

\* Memory.read: self._read(addr, n_bytes).astype(width2dtype[n_bytes]).item(0)
\* the first element of the slice, converted to the n_bytes-wide dtype; an
\* empty slice has no item 0
MemoryRead(mem, addr, n_bytes) ==
    IF addr >= mem.size
    THEN [err |-> "IndexError", val |-> Zero]
    ELSE [err |-> "none", val |-> PMod2(Elem(mem, addr), 8 * n_bytes)]

\* byte i of data.to_bytes(n_bytes, byteorder="little")
ByteOf(data, i) == PMod2(PShr(data, 8 * i), 8)

\* data.to_bytes(n_bytes, byteorder="little"): its non-zero bytes, by index
to_bytes(data, n_bytes) ==
    [i \in {k \in 0 .. (n_bytes - 1) : ByteOf(data, k) # Zero} |-> ByteOf(data, i)]

\* Memory._write_bytes: self._contents[addr : addr + len(data)] = memoryview(data)
\* Element addr + i of the array becomes byte i of data, whatever the width
\* of the elements.  `data` holds the non-zero bytes of the `length` bytes.
write_bytes(contents, addr, data, length) ==
    [j \in ((DOMAIN contents) \ (addr .. (addr + length - 1)))
               \cup {addr + i : i \in DOMAIN data}
        |-> IF j \in addr .. (addr + length - 1) THEN data[j - addr] ELSE contents[j]]

\* Memory.write: self._write_bytes(addr, data.to_bytes(n_bytes, "little")).
\* to_bytes raises OverflowError for a negative data or one of more than
\* n_bytes bytes; the slice assignment raises ValueError when the slice is
\* cut short by the end of the array, except that a single byte is
\* broadcast into the empty slice, which stores nothing.
MemoryWrite(mem, addr, data, n_bytes) ==
    IF PLt(data, Zero) \/ PShr(data, 8 * n_bytes) # Zero
    THEN [err |-> "OverflowError", mem |-> mem]
    ELSE IF addr + n_bytes > mem.size /\ n_bytes # 1
    THEN [err |-> "ValueError", mem |-> mem]
    ELSE IF addr >= mem.size
    THEN [err |-> "none", mem |-> mem]
    ELSE [err |-> "none",
          mem |-> [mem EXCEPT !.contents =
                      write_bytes(mem.contents, addr, to_bytes(data, n_bytes), n_bytes)]]

(***************************************************************************)
(* models.py: MemoryMappedPeripheral, SimControl                           *)
(***************************************************************************)

\* MemoryMappedPeripheral.__init__: self._word_size = 8
WORD_SIZE == 8

WordIdx == 0 .. (WORD_SIZE - 1)

\* the predicates and callbacks a driver hands to add_trigger
\* "eq1": lambda new, old: new == 1; "always": lambda new, old: True
\* "eqAABB": lambda new, old: new == 0xAABB
TestFunc(test_func, new, old) ==
    CASE test_func = "eq1" -> new = P(1)
      [] test_func = "eqAABB" -> new = P(43707)
      [] test_func = "always" -> TRUE
      [] OTHER -> FALSE

\* MemoryMappedPeripheral.get_register: idx = self._register_lookup[addr >> 2]
\* None (here 0) when idx == 0
get_register(peri, addr) == peri.lookup[addr \div 4]

\* MemoryMappedPeripheral.alloc_register
alloc_register(peri, addr) ==
    LET max == CHOOSE m \in {peri.lookup[i] : i \in WordIdx} :
                   \A i \in WordIdx : peri.lookup[i] <= m
        next_idx == max + 1
    IN  [peri |-> [peri EXCEPT !.lookup[addr \div 4] = next_idx], idx |-> next_idx]

\* MemoryMappedPeripheral.set_register
set_register(peri, addr, val) ==
    LET idx == get_register(peri, addr)
        a == IF idx = 0 THEN alloc_register(peri, addr) ELSE [peri |-> peri, idx |-> idx]
    IN  [a.peri EXCEPT !.values[a.idx] = val]

\* MemoryMappedPeripheral.__init__, SimControl
SimControlInit ==
    set_register([values |-> [i \in WordIdx |-> Zero],
                  lookup |-> [i \in WordIdx |-> 0],
                  triggers |-> <<>>], 0, Zero)

\* MemoryMappedPeripheral.read
PeripheralRead(peri, addr, n_bytes) ==
    LET key == get_register(peri, addr)
        value == peri.values[key - 1]
    IN  IF key = 0 THEN [err |-> "UnallocatedAddress", val |-> Zero]
        ELSE [err |-> "none",
              val |-> CASE n_bytes = 1 ->
                             PAnd(PShr(value, BitAnd(addr, 3) * 8), P(255))
                        [] n_bytes = 2 ->
                             PAnd(PShr(value, BitAnd(addr, 2) * 4), P(65535))
                        [] OTHER -> value]

\* the triggers of a write that fire, in the order of the dict
FiredTriggers(peri, addr, value, old_value) ==
    SelectSeq(peri.triggers,
              LAMBDA t : t.addr = addr /\ TestFunc(t.test_func, value, old_value))

\* MemoryMappedPeripheral.write.  `fired` lists the triggers whose callbacks
\* are called, `args` is the (value, old_value) that the predicates and the
\* callbacks are called with.  The value stored is taken to fit the uint32
\* element (numpy raises or wraps otherwise, by its version).
PeripheralWrite(peri, addr, data, n_bytes) ==
    LET idx == get_register(peri, addr)
        old_value == peri.values[idx]
        mask0 == PShl(P(1), (n_bytes * 8) - 1)
        lane == BitAnd(addr, 255)
        value == PShl(PAnd(data, mask0), lane)
        mask == PShl(mask0, BitAnd(addr, lane))
        new == POr(PAnd(old_value, PInv(mask)), value)
    IN  IF idx = 0
        THEN [err |-> "UnallocatedAddress", peri |-> peri, fired |-> <<>>,
              args |-> <<>>]
        ELSE [err |-> "none",
              peri |-> [peri EXCEPT !.values[idx] = new],
              fired |-> FiredTriggers(peri, addr, value, old_value),
              args |-> <<value, old_value>>]

\* MemoryMappedPeripheral.add_trigger: self._triggers[TriggerKey(addr,
\* test_func)] = callback; a key already in the dict keeps its place
add_trigger(peri, addr, test_func, callback) ==
    LET t == [addr |-> addr, test_func |-> test_func, callback |-> callback]
        same(u) == u.addr = addr /\ u.test_func = test_func
    IN  IF \E i \in 1 .. Len(peri.triggers) : same(peri.triggers[i])
        THEN [peri EXCEPT !.triggers =
                 [i \in 1 .. Len(peri.triggers) |->
                     IF same(peri.triggers[i]) THEN t ELSE peri.triggers[i]]]
        ELSE [peri EXCEPT !.triggers = Append(peri.triggers, t)]

(***************************************************************************)
(* models.py: AddressRange, SystemBus                                      *)
(*                                                                         *)
(* A slave port is [name, start, end, size, peripheral]; the peripheral is *)
(* named by the hart attribute that holds it.  Bus addresses are Python    *)
(* integers (the pc is one); starts and sizes are small.                   *)
(***************************************************************************)

\* AddressRange.__init__
AddressRange(start, size) == [start |-> start, end |-> start + size - 1, size |-> size]

\* AddressRange.contains
contains(range, addr, n_bytes) ==
    LET access_end == PAdd(addr, P(n_bytes - 1))
    IN  PLe(P(range.start), addr) /\ PLe(access_end, P(range.end))

\* a variant of overlaps that also counts ranges that only touch
overlapsTouching(self, other) ==
    ~(self.end + 1 < other.start \/ other.end + 1 < self.start)

\* AddressRange.overlaps
overlaps(self, other) == ~(self.end < other.start \/ other.end < self.start)

\* SystemBus.add_slave_port: ValueError when the new range overlaps one in
\* the table, else self._slave_ports[name] = (new_range, peripheral)
add_slave_port(ports, name, start_addr, size, peripheral) ==
    LET new_range == AddressRange(start_addr, size)
        port == [name |-> name, range |-> new_range, peripheral |-> peripheral]
    IN  IF \E i \in 1 .. Len(ports) : overlaps(new_range, ports[i].range)
        THEN [err |-> "ValueError", ports |-> ports]
        ELSE IF \E i \in 1 .. Len(ports) : ports[i].name = name
        THEN [err |-> "none",
              ports |-> [i \in 1 .. Len(ports) |->
                            IF ports[i].name = name THEN port ELSE ports[i]]]
        ELSE [err |-> "none", ports |-> Append(ports, port)]

\* addr % n_bytes for n_bytes in {1, 2, 4}
AddrMod(addr, n_bytes) == addr[2] % n_bytes

\* the first port, in the order of the table, whose range contains the
\* access; 0 when there is none
FirstPort(hits) == IF hits = {} THEN 0 ELSE CHOOSE i \in hits : \A j \in hits : i <= j

\* a variant of check_access that looks for the port before it checks the
\* width and the alignment
check_accessPortFirst(ports, addr, n_bytes) ==
    IF \A i \in 1 .. Len(ports) : ~contains(ports[i].range, addr, n_bytes)
    THEN [err |-> "none", port |-> 0]
    ELSE IF BitAnd(n_bytes, n_bytes - 1) # 0 \/ n_bytes = 0 \/ n_bytes > 4
                \/ AddrMod(addr, n_bytes) # 0
    THEN [err |-> "AddressMisaligned", port |-> 0]
    ELSE [err |-> "none",
          port |-> FirstPort({i \in 1 .. Len(ports) :
                                 contains(ports[i].range, addr, n_bytes)})]

\* SystemBus.check_access: the exception raised, or the first port whose
\* range contains the access (0 for None)
check_access(ports, addr, n_bytes) ==
    IF BitAnd(n_bytes, n_bytes - 1) # 0 \/ n_bytes = 0
    THEN [err |-> "AddressMisaligned", port |-> 0]
    ELSE IF n_bytes > 4
    THEN [err |-> "AddressMisaligned", port |-> 0]
    ELSE IF AddrMod(addr, n_bytes) # 0
    THEN [err |-> "AddressMisaligned", port |-> 0]
    ELSE [err |-> "none",
          port |-> FirstPort({i \in 1 .. Len(ports) :
                                 contains(ports[i].range, addr, n_bytes)})]

\* a variant of ValidAccess that passes the bus address on as the offset
ValidAccessBusAddress(ports, addr, valid_access) ==
    IF valid_access.err # "none" THEN [err |-> valid_access.err]
    ELSE IF valid_access.port = 0 THEN [err |-> "AccessFault"]
    ELSE [err |-> "none",
          peripheral |-> ports[valid_access.port].peripheral,
          offset |-> ToInt(addr)]

\* the ValidAccess(peripheral, offset) of check_access
ValidAccess(ports, addr, valid_access) ==
    IF valid_access.err # "none" THEN [err |-> valid_access.err]
    ELSE IF valid_access.port = 0 THEN [err |-> "AccessFault"]
    ELSE [err |-> "none",
          peripheral |-> ports[valid_access.port].peripheral,
          offset |-> ToInt(PSub(addr, P(ports[valid_access.port].range.start)))]

\* SystemBus.get_access: AccessFault when check_access returns None
get_access(ports, addr, n_bytes) ==
    ValidAccess(ports, addr, check_access(ports, addr, n_bytes))

\* peripheral.read(offset, n_bytes) on the peripheral of the access a; the
\* devices of a hart are h.imem, h.dmem and h.sim
ReadAccess(h, a, n_bytes) ==
    IF a.err # "none" THEN [err |-> a.err, val |-> Zero]
    ELSE CASE a.peripheral = "instruction_memory" ->
                  MemoryRead(h.imem, a.offset, n_bytes)
           [] a.peripheral = "data_memory" ->
                  MemoryRead(h.dmem, a.offset, n_bytes)
           [] a.peripheral = "sim_control" ->
                  PeripheralRead(h.sim, a.offset, n_bytes)

\* SystemBus.read
BusRead(h, addr, n_bytes) == ReadAccess(h, get_access(h.ports, addr, n_bytes), n_bytes)

\* the callbacks of the fired triggers, run in order: "halt" sets the flag
RunCallbacks(halt, fired) ==
    halt \/ \E i \in 1 .. Len(fired) : fired[i].callback = "halt"

\* the hart after a write r to its instruction memory, data memory or
\* sim-control peripheral
ImemWritten(h, r) == [err |-> r.err, h |-> [h EXCEPT !.imem = r.mem]]

DmemWritten(h, r) == [err |-> r.err, h |-> [h EXCEPT !.dmem = r.mem]]

SimWritten(h, r) ==
    [err |-> r.err,
     h |-> [h EXCEPT !.sim = r.peri, !.halt = RunCallbacks(h.halt, r.fired)]]

\* peripheral.write(offset, data, n_bytes) on the peripheral of the access a
WriteAccess(h, a, data, n_bytes) ==
    IF a.err # "none" THEN [err |-> a.err, h |-> h]
    ELSE CASE a.peripheral = "instruction_memory" ->
                  ImemWritten(h, MemoryWrite(h.imem, a.offset, data, n_bytes))
           [] a.peripheral = "data_memory" ->
                  DmemWritten(h, MemoryWrite(h.dmem, a.offset, data, n_bytes))
           [] a.peripheral = "sim_control" ->
                  SimWritten(h, PeripheralWrite(h.sim, a.offset, data, n_bytes))

\* SystemBus.write
BusWrite(h, addr, data, n_bytes) ==
    WriteAccess(h, get_access(h.ports, addr, n_bytes), data, n_bytes)

(***************************************************************************)
(* instructions.py: bselect, decode_instr                                  *)
(*                                                                         *)
(* An instruction is [op, rd, rs1, rs2, imm]: op is the name of its class, *)
(* and a field its frame does not have is 0.                               *)
(***************************************************************************)

\* bselect(bits, msb, lsb, shift): s = msb - lsb + 1; mask = (1 << s) - 1;
\* (mask & bits >> lsb) << shift
bselect(bits, msb, lsb, shift) ==
    LET s == msb - lsb + 1
        mask == PSub(PShl(P(1), s), P(1))
    IN  PShl(PAnd(mask, PShr(bits, lsb)), shift)

Instr(op, rd, rs1, rs2, imm) ==
    [op |-> op, rd |-> rd, rs1 |-> rs1, rs2 |-> rs2, imm |-> imm]

\* an instruction that writes x1: ADDI x1,x0,1
AddImmediateX1 == Instr("AddImmediate", 1, 0, 0, P(1))

\* Add(RType(rd="x0", rs1="x0", rs2="x0")), the last line of decode_instr
Nop == Instr("Add", 0, 0, 0, Zero)

Decoded(instr) == [err |-> "none", instr |-> instr]

\* the fields and immediates decode_instr slices from the word
Fields(instr) ==
    [op |-> ToInt(bselect(instr, 6, 0, 0)),
     funct3 |-> ToInt(bselect(instr, 14, 12, 0)),
     funct7 |-> ToInt(bselect(instr, 31, 25, 0)),
     rd |-> ToInt(bselect(instr, 11, 7, 0)),
     rs1 |-> ToInt(bselect(instr, 19, 15, 0)),
     rs2 |-> ToInt(bselect(instr, 24, 20, 0)),
     immI |-> se(bselect(instr, 31, 20, 0), 12),
     immS |-> se(POr(bselect(instr, 31, 25, 5), bselect(instr, 11, 7, 0)), 12),
     immB |-> se(POr(POr(bselect(instr, 31, 31, 12), bselect(instr, 7, 7, 11)),
                     POr(bselect(instr, 30, 25, 5), bselect(instr, 11, 8, 1))),
                 12 + 1),
     immJ |-> se(POr(POr(bselect(instr, 31, 31, 20), bselect(instr, 19, 12, 12)),
                     POr(bselect(instr, 20, 20, 11), bselect(instr, 30, 21, 1))),
                 20 + 1),
     immU |-> bselect(instr, 31, 12, 12),
     shamt |-> bselect(instr, 24, 20, 0)]

\* an instruction of class c on the IType, SType, RType or BType frame
I(f, c) == Decoded(Instr(c, f.rd, f.rs1, 0, f.immI))

S(f, c) == Decoded(Instr(c, 0, f.rs1, f.rs2, f.immS))

R(f, c) == Decoded(Instr(c, f.rd, f.rs1, f.rs2, Zero))

B(f, c) == Decoded(Instr(c, 0, f.rs1, f.rs2, f.immB))

\* the match statements of decode_instr.  A known opcode whose inner match
\* has no case for the funct3 / funct7 falls out of the match statement to
\* the final return.
Match(f, op, funct3, funct7) ==
    CASE op = 3 ->       \* 0b0000011 loads
           CASE funct3 = 0 -> I(f, "LoadByte")
             [] funct3 = 1 -> I(f, "LoadHalfword")
             [] funct3 = 2 -> I(f, "LoadWord")
             [] funct3 = 4 -> I(f, "LoadByteU")
             [] funct3 = 5 -> I(f, "LoadHalfwordU")
             [] OTHER -> Decoded(Nop)
      [] op = 35 ->      \* 0b0100011 stores
           CASE funct3 = 0 -> S(f, "StoreByte")
             [] funct3 = 1 -> S(f, "StoreHalfword")
             [] funct3 = 2 -> S(f, "StoreWord")
             [] OTHER -> Decoded(Nop)
      [] op = 19 ->      \* 0b0010011 immediate arithmetic
           CASE funct3 = 0 -> I(f, "AddImmediate")
             [] funct3 = 2 -> I(f, "SetOnLessThanImmediate")
             [] funct3 = 3 -> I(f, "SetOnLessThanImmediateU")
             [] funct3 = 4 -> I(f, "ExclusiveOrImmediate")
             [] funct3 = 6 -> I(f, "OrImmediate")
             [] funct3 = 7 -> I(f, "AndImmediate")
             [] funct3 = 1 -> I(f, "ShiftLeftLogicalImmediate")
             [] funct3 = 5 /\ funct7 = 0 ->
                  Decoded(Instr("ShiftRightLogicalImmediate", f.rd, f.rs1, 0, f.shamt))
             [] funct3 = 5 /\ funct7 = 32 ->
                  Decoded(Instr("ShiftRightArithmeticImmediate", f.rd, f.rs1, 0, f.shamt))
             [] OTHER -> Decoded(Nop)
      [] op = 51 ->      \* 0b0110011 register arithmetic
           CASE funct3 = 0 /\ funct7 = 0 -> R(f, "Add")
             [] funct3 = 0 /\ funct7 = 32 -> R(f, "Sub")
             [] funct3 = 1 -> R(f, "ShiftLeftLogical")
             [] funct3 = 2 -> R(f, "SetOnLessThan")
             [] funct3 = 3 -> R(f, "SetOnLessThanU")
             [] funct3 = 4 -> R(f, "ExclusiveOr")
             [] funct3 = 5 /\ funct7 = 0 -> R(f, "ShiftRightLogical")
             [] funct3 = 5 /\ funct7 = 32 -> R(f, "ShiftRightArithmetic")
             [] funct3 = 6 -> R(f, "Or")
             [] funct3 = 7 -> R(f, "And")
             [] OTHER -> Decoded(Nop)
      [] op = 99 ->      \* 0b1100011 branches
           CASE funct3 = 0 -> B(f, "BranchEqual")
             [] funct3 = 1 -> B(f, "BranchNotEqual")
             [] funct3 = 4 -> B(f, "BranchOnLessThan")
             [] funct3 = 5 -> B(f, "BranchOnGreaterThanEqual")
             [] funct3 = 6 -> B(f, "BranchOnLessThanU")
             [] funct3 = 7 -> B(f, "BranchOnGreaterThanEqualU")
             [] OTHER -> Decoded(Nop)
      [] op = 103 ->     \* 0b1100111 jalr
           I(f, "JumpAndLinkRegister")
      [] op = 111 ->     \* 0b1101111 jal
           Decoded(Instr("JumpAndLink", f.rd, 0, 0, f.immJ))
      [] op = 55 ->      \* 0b0110111 lui
           Decoded(Instr("LoadUpperImmediate", f.rd, 0, 0, f.immU))
      [] op = 23 ->      \* 0b0010111 auipc
           Decoded(Instr("AddUpperImmediateToPc", f.rd, 0, 0, f.immU))
      [] op = 15 ->      \* 0b0001111 fence
           Decoded(Nop)
      [] op = 115 ->     \* 0b1110011 env
           Decoded(Nop)
      [] OTHER -> [err |-> "InvalidInstruction", instr |-> Nop]

\* decode_instr
DecodeFields(f) == Match(f, f.op, f.funct3, f.funct7)

decode_instr(instr) == DecodeFields(Fields(instr))

(***************************************************************************)
(* instructions.py: Instruction.exec of every class                        *)
(*                                                                         *)
(* A hart h is [pc, rf, imem, dmem, sim, ports, halt]; halt is the flag    *)
(* the driver's halt callback sets.                                        *)
(***************************************************************************)

Ok(h) == [err |-> "none", h |-> h]

\* hart.rf[self.rd] = value
SetRd(h, instr, value) == Ok([h EXCEPT !.rf = RfSet(h.rf, instr.rd, value)])

\* hart.pc += other: Register.__iadd__, self.write(self + other)
PcIadd(h, other) == [h EXCEPT !.pc = MutableWrite(RegAdd(h.pc, other))]

\* hart.rf[self.rd] = the value r read from the bus, sign-extended from
\* n_bytes in LoadHalfword and LoadByte
Loaded(h, instr, r, n_bytes, signed) ==
    IF r.err # "none" THEN [err |-> r.err, h |-> h]
    ELSE SetRd(h, instr, IF signed THEN se(r.val, 8 * n_bytes) ELSE r.val)

\* LoadWord.exec .. LoadByte.exec: the bus address is self.rs1 + self.imm
LoadExec(h, instr, n_bytes, signed) ==
    Loaded(h, instr, BusRead(h, PAdd(P(instr.rs1), instr.imm), n_bytes), n_bytes, signed)

\* StoreWord.exec, StoreHalfword.exec, StoreByte.exec:
\* addr = self.rs1 + self.imm; hart.system_bus.write(addr, self.rs2, n)
StoreExec(h, instr, n_bytes) ==
    BusWrite(h, PAdd(P(instr.rs1), instr.imm), P(instr.rs2), n_bytes)

\* hart.rf[self.rd] = hart.pc + 4
Link(h, instr) == [h EXCEPT !.rf = RfSet(h.rf, instr.rd, RegAdd(h.pc, P(4)))]

\* a JAL after which the pc is advanced by a further 4
JumpAndLinkExecPlus4(h, instr) ==
    Ok(PcIadd(PcIadd(Link(h, instr), instr.imm), P(4)))

\* JumpAndLink.exec: the link, then hart.pc += self.imm
JumpAndLinkExec(h, instr) == Ok(PcIadd(Link(h, instr), instr.imm))

\* a jump to rs1 + imm with bit 0 kept
JumpRegisterOdd(h, instr) ==
    [h EXCEPT !.pc = MutableWrite(RegAdd(h.rf[instr.rs1], instr.imm))]

\* val = hart.rf[self.rs1] + self.imm; hart.pc.write(val & 0xFFFF_FFFE)
JumpRegister(h, instr) ==
    [h EXCEPT !.pc = MutableWrite(PAnd(RegAdd(h.rf[instr.rs1], instr.imm),
                                       W(65535, 65534)))]

\* JumpAndLinkRegister.exec: the link, then the jump
JumpAndLinkRegisterExec(h, instr) == Ok(JumpRegister(Link(h, instr), instr))

\* a branch that is always taken
BranchAlways(h, instr) == TRUE

\* the condition of a branch class
BranchTaken(h, instr) ==
    LET a == h.rf[instr.rs1]
        b == h.rf[instr.rs2]
    IN  CASE instr.op = "BranchEqual" -> RegEq(a, b)
          [] instr.op = "BranchNotEqual" -> RegNe(a, b)
          [] instr.op = "BranchOnLessThan" -> PLt(se(a, 32), se(b, 32))
          [] instr.op = "BranchOnLessThanU" -> RegLt(a, b)
          [] instr.op = "BranchOnGreaterThanEqual" -> ~PLt(se(a, 32), se(b, 32))
          [] instr.op = "BranchOnGreaterThanEqualU" -> RegGe(a, b)

\* BranchEqual.exec .. BranchOnGreaterThanEqualU.exec: hart.pc += self.imm
\* (self.imm & 0xFFFF_FFFF in the two unsigned classes) when the condition
\* holds, nothing otherwise
BranchExec(h, instr) ==
    IF BranchTaken(h, instr)
    THEN Ok(PcIadd(h, IF instr.op \in {"BranchOnLessThanU", "BranchOnGreaterThanEqualU"}
                      THEN PAnd(instr.imm, MASK) ELSE instr.imm))
    ELSE Ok(h)

Bool2Int(b) == IF b THEN P(1) ELSE Zero

BranchOps ==
    {"BranchEqual", "BranchNotEqual", "BranchOnLessThan", "BranchOnLessThanU",
     "BranchOnGreaterThanEqual", "BranchOnGreaterThanEqualU"}

JumpOps == {"JumpAndLink", "JumpAndLinkRegister"}

LoadOps == {"LoadWord", "LoadHalfword", "LoadByte", "LoadHalfwordU", "LoadByteU"}

StoreOps == {"StoreWord", "StoreHalfword", "StoreByte"}

\* instr.exec(hart)
exec(h, instr) ==
    LET a == h.rf[instr.rs1]
        b == h.rf[instr.rs2]
        imm == instr.imm
        op == instr.op
    IN  CASE op = "JumpAndLink" -> JumpAndLinkExec(h, instr)
          [] op = "JumpAndLinkRegister" -> JumpAndLinkRegisterExec(h, instr)
          [] op \in BranchOps -> BranchExec(h, instr)
          [] op = "LoadWord" -> LoadExec(h, instr, 4, FALSE)
          [] op = "LoadHalfwordU" -> LoadExec(h, instr, 2, FALSE)
          [] op = "LoadByteU" -> LoadExec(h, instr, 1, FALSE)
          [] op = "LoadHalfword" -> LoadExec(h, instr, 2, TRUE)
          [] op = "LoadByte" -> LoadExec(h, instr, 1, TRUE)
          [] op = "StoreWord" -> StoreExec(h, instr, 4)
          [] op = "StoreHalfword" -> StoreExec(h, instr, 2)
          [] op = "StoreByte" -> StoreExec(h, instr, 1)
          [] op = "AddImmediate" -> SetRd(h, instr, RegAdd(a, imm))
          [] op = "SetOnLessThanImmediate" ->
               SetRd(h, instr, Bool2Int(PLt(se(a, 32), imm)))
          [] op = "SetOnLessThanImmediateU" ->
               SetRd(h, instr, Bool2Int(RegLt(a, PAnd(imm, MASK))))
          [] op = "ExclusiveOrImmediate" -> SetRd(h, instr, RegXor(a, imm))
          [] op = "OrImmediate" -> SetRd(h, instr, RegOr(a, imm))
          [] op = "AndImmediate" -> SetRd(h, instr, RegAnd(a, imm))
          [] op = "ShiftLeftLogicalImmediate" -> SetRd(h, instr, RegShl(a, imm))
          [] op = "ShiftRightLogicalImmediate" -> SetRd(h, instr, RegShr(a, imm))
          [] op = "ShiftRightArithmeticImmediate" ->
               SetRd(h, instr, SignedShr(se(a, 32), imm))
          [] op = "LoadUpperImmediate" -> SetRd(h, instr, imm)
          [] op = "AddUpperImmediateToPc" -> SetRd(h, instr, RegAdd(h.pc, imm))
          [] op = "Add" -> SetRd(h, instr, RegAdd(a, b))
          [] op = "Sub" -> SetRd(h, instr, RegSub(a, b))
          [] op = "ShiftLeftLogical" -> SetRd(h, instr, RegShl(a, b))
          [] op = "SetOnLessThan" ->
               SetRd(h, instr, Bool2Int(PLt(se(a, 32), se(b, 32))))
          [] op = "SetOnLessThanU" -> SetRd(h, instr, Bool2Int(RegLt(a, b)))
          [] op = "ExclusiveOr" -> SetRd(h, instr, RegXor(a, b))
          [] op = "ShiftRightLogical" -> SetRd(h, instr, RegShr(a, b))
          [] op = "ShiftRightArithmetic" -> SetRd(h, instr, SignedShr(se(a, 32), b))
          [] op = "Or" -> SetRd(h, instr, RegOr(a, b))
          [] op = "And" -> SetRd(h, instr, RegAnd(a, b))

(***************************************************************************)
(* harts.py: Hart                                                          *)
(***************************************************************************)

INSTRUCTION_MEMORY_BASE == 0

INSTRUCTION_MEMORY_SIZE == 2 * 1024 * 1024

DATA_MEMORY_BASE == INSTRUCTION_MEMORY_BASE + INSTRUCTION_MEMORY_SIZE

DATA_MEMORY_SIZE == 6 * 1024 * 1024

\* Hart.__init__: pc and registers zero, the two memories attached to the
\* bus, the sim-control peripheral created (and attached to nothing)
\* (Hart.__init__ passes a size to DataMemory and InstructionMemory, whose
\* constructors take none; the memories are the ones models.py builds.)
HartPorts ==
    add_slave_port(
        add_slave_port(<<>>, "instruction memory", INSTRUCTION_MEMORY_BASE,
                       INSTRUCTION_MEMORY_SIZE, "instruction_memory").ports,
        "data memory", DATA_MEMORY_BASE, DATA_MEMORY_SIZE, "data_memory").ports

HartInit ==
    [pc |-> Zero,
     rf |-> RegisterFileInit,
     dmem |-> DataMemoryInit,
     imem |-> InstructionMemoryInit,
     ports |-> HartPorts,
     sim |-> SimControlInit,
     halt |-> FALSE]

\* the outcome of a step: the exception raised ("none" when it returned),
\* the hart, and the word fetched and the instruction decoded (Nop when the
\* step failed before)
Stepped(err, h, word, instr) == [err |-> err, h |-> h, word |-> word, instr |-> instr]

\* Hart.step, execute: instr.exec(self)
Executed(e, word, instr) == Stepped(e.err, e.h, word, instr)

\* Hart.step, decode: instr = decode_instr(instr_word)
Execute(h, word, d) ==
    IF d.err # "none" THEN Stepped(d.err, h, word, Nop)
    ELSE Executed(exec(h, d.instr), word, d.instr)

\* Hart.step, fetch: instr_word = self.read(self.pc.read(), 4)
Decode(h, f) ==
    IF f.err # "none" THEN Stepped(f.err, h, Zero, Nop)
    ELSE Execute(h, f.val, decode_instr(f.val))

\* Hart.step
step(h) == Decode(h, BusRead(h, h.pc, 4))

(***************************************************************************)
(* harts.py: Hart.load                                                     *)
(*                                                                         *)
(* The image is a valid 32-bit little-endian RISC-V executable; the files  *)
(* that load() refuses are not modelled.                                   *)
(***************************************************************************)

\* the length of a segment of bytes `data`
SegLen(data) ==
    IF DOMAIN data = {} THEN 0
    ELSE (CHOOSE m \in DOMAIN data : \A x \in DOMAIN data : x <= m) + 1

\* the non-zero bytes of a segment of instruction words, each word
\* little-endian, by offset
TextBytes(text) ==
    [b \in {x \in {w + k : w \in DOMAIN text, k \in 0 .. 3} :
               ByteOf(text[x - (x % 4)], x % 4) # Zero}
        |-> ByteOf(text[b - (b % 4)], b % 4)]

\* the length in bytes of a segment of instruction words
TextLen(text) == SegLen(text) + 3

\* Hart.load of an image with an executable and a data segment:
\* instruction_memory._write_bytes(0, seg.data()) for the executable one,
\* data_memory._write_bytes(0, seg.data()) for the other
load(h, image) ==
    [h EXCEPT !.imem.contents =
                  write_bytes(@, 0, TextBytes(image.text), TextLen(image.text)),
              !.dmem.contents = write_bytes(@, 0, image.data, SegLen(image.data))]

(***************************************************************************)
(* The programs the hart is given: the instruction words of the           *)
(* executable segment of an image by their offset in it, and the bytes of  *)
(* its data segment by theirs.                                             *)
(***************************************************************************)

\* 0x0: ADDI x1,x0,5; 0x4: ADDI x2,x1,7; 0x8: ADD x3,x1,x2
ProgAddiChain ==
    0 :> W(\h0050, \h0093)
    @@ 4 :> W(\h0070, \h8113)
    @@ 8 :> W(\h0020, \h81B3)

\* 0x0: ADDI x2,x0,0x42; 0x4: SW x2,0(x5); 0x8: LB x3,0(x5); 0xc: LW x4,0(x5)
ProgLoadStore ==
    0 :> W(\h0420, \h0113)
    @@ 4 :> W(\h0022, \hA023)
    @@ 8 :> W(\h0002, \h8183)
    @@ 12 :> W(\h0002, \hA203)

\* 0x0: ADDI x1,x0,5; 0x4: ADDI x2,x0,5; 0x8: BEQ x1,x2,8; 0xc: ADDI x3,x0,1; 0x10: ADDI x3,x0,2
ProgBranch ==
    0 :> W(\h0050, \h0093)
    @@ 4 :> W(\h0050, \h0113)
    @@ 8 :> W(\h0020, \h8463)
    @@ 12 :> W(\h0010, \h0193)
    @@ 16 :> W(\h0020, \h0193)

\* 0x100: JAL x1,12; 0x104: JALR x1,x1,1; 0x108: JALR x2,x1,1; 0x10c: JALR x0,x1,0; 0x110: JAL x0,-16
ProgJump ==
    256 :> W(\h00C0, \h00EF)
    @@ 260 :> W(\h0010, \h80E7)
    @@ 264 :> W(\h0010, \h8167)
    @@ 268 :> W(\h0000, \h8067)
    @@ 272 :> W(\hFF1F, \hF06F)

\* 0x0: ADDI x1,x0,1; 0x4: SW x1,0(x6)
ProgTrigger ==
    0 :> W(\h0010, \h0093)
    @@ 4 :> W(\h0013, \h2023)

\* 0x0: LW x1,0(x4); 0x4: LW x1,2(x0); 0x8: no instruction; 0xc: FENCE; 0x10: ECALL; 0x14: ADDI x0,x1,1; 0x100: LW x2,-4(x0); 0x104: LUI x3,0xFFFFF; 0x108: AUIPC x0,1; 0x10c: SB x2,1(x4)
ProgFaults ==
    0 :> W(\h0002, \h2083)
    @@ 4 :> W(\h0020, \h2083)
    @@ 8 :> W(\hFFFF, \hFFFF)
    @@ 12 :> W(\h0FF0, \h000F)
    @@ 16 :> W(\h0000, \h0073)
    @@ 20 :> W(\h0010, \h8013)
    @@ 256 :> W(\hFFC0, \h2103)
    @@ 260 :> W(\hFFFF, \hF1B7)
    @@ 264 :> W(\h0000, \h1017)
    @@ 268 :> W(\h0022, \h00A3)

\* 0x0: BEQ x1,x2,8; 0x4: BNE x1,x2,8; 0x8: BLT x1,x2,-8; 0xc: BGE x1,x2,8; 0x10: BLTU x1,x2,-8; 0x14: BGEU x1,x2,8
ProgBranches ==
    0 :> W(\h0020, \h8463)
    @@ 4 :> W(\h0020, \h9463)
    @@ 8 :> W(\hFE20, \hCCE3)
    @@ 12 :> W(\h0020, \hD463)
    @@ 16 :> W(\hFE20, \hECE3)
    @@ 20 :> W(\h0020, \hF463)

\* the bytes of the data segment of the load/store program
DataLoadStore == 0 :> P(128) @@ 2 :> P(1)

Image(text, data) == [text |-> text, data |-> data]

Programs ==
    {Image(ProgAddiChain, <<>>), Image(ProgLoadStore, DataLoadStore),
     Image(ProgBranch, <<>>), Image(ProgJump, <<>>), Image(ProgTrigger, <<>>),
     Image(ProgFaults, <<>>), Image(ProgBranches, <<>>)}

(***************************************************************************)
(* The driver's inputs                                                     *)
(***************************************************************************)

\* the base and size at which a driver attaches the sim-control peripheral:
\* the first address after data memory, and the peripheral's _byte_size
SimBase == DATA_MEMORY_BASE + DATA_MEMORY_SIZE

SimSize == WORD_SIZE * 4

\* values a driver writes to the pc besides the addresses of the program's
\* instructions: an odd halfword address and an address that no port contains
FaultPcs == {P(2), W(\hFFFF, \hFFFC)}

\* <<register, value>> a driver writes
RfPokes ==
    {<<5, P(DATA_MEMORY_BASE)>>, <<6, P(SimBase)>>, <<4, P(2)>>, <<1, P(4096)>>,
     <<2, W(\hFFFF, \hFFFF)>>, <<0, P(7)>>}

\* start addresses of the driver's add_slave_port("sim control", ...) calls
AttachStarts == {SimBase, DATA_MEMORY_BASE + DATA_MEMORY_SIZE - 4}

\* driver register writes in a behaviour
MaxPokes == 1

\* step() calls counted from the load of the image
MaxRun == 6

(***************************************************************************)
(* State and actions                                                       *)
(***************************************************************************)

VARIABLES
    hart,     \* the Hart
    pre,      \* the Hart before the last step() or exec(), when that is the last operation
    last,     \* the last operation and how it ended
    pokes,    \* number of driver register writes so far
    prog,     \* the image the driver works with
    run       \* loaded: the image has been loaded; clean: it was loaded into
              \* the hart as built and only step() has been called since;
              \* steps: the number of those step() calls (up to MaxRun)

vars == <<hart, pre, last, pokes, prog, run>>

Op(op, err, word, instr) == [op |-> op, err |-> err, word |-> word, instr |-> instr]

\* a freshly built hart, and the image of the driver
Init ==
    /\ hart = HartInit
    /\ pre = hart
    /\ last = Op("init", "none", Zero, Nop)
    /\ pokes = 0
    /\ prog \in Programs
    /\ run = [loaded |-> FALSE, clean |-> FALSE, steps |-> 0]

\* the run after an operation of the driver other than load() and step()
Disturbed == [run EXCEPT !.clean = FALSE, !.steps = 0]

\* hart.load(image)
Load ==
    /\ ~run.loaded
    /\ hart' = load(hart, prog)
    /\ pre' = hart'
    /\ last' = Op("load", "none", Zero, Nop)
    /\ run' = [loaded |-> TRUE, clean |-> hart = HartInit, steps |-> 0]
    /\ UNCHANGED <<pokes, prog>>

\* the state after hart.step() ended as r
StepTo(r) ==
    /\ hart' = r.h
    /\ pre' = hart
    /\ last' = Op("step", r.err, r.word, r.instr)
    /\ run' = [run EXCEPT !.steps = IF run.clean /\ @ < MaxRun THEN @ + 1 ELSE @]
    /\ UNCHANGED <<pokes, prog>>

\* hart.step()
Step == StepTo(step(hart))

\* the state after instr.exec(hart) ended as r
ExecTo(r) ==
    /\ hart' = r.h
    /\ pre' = hart
    /\ last' = Op("exec", r.err, r.word, r.instr)
    /\ run' = Disturbed
    /\ UNCHANGED <<pokes, prog>>

\* decode_instr(word) gave d: d.instr.exec(hart)
ExecDecoded(d, word) ==
    /\ d.err = "none"
    /\ ExecTo(Executed(exec(hart, d.instr), word, d.instr))

\* decode_instr(word).exec(hart), for the word of the image at the pc
Exec ==
    \E a \in DOMAIN prog.text :
        /\ hart.pc = P(a)
        /\ ExecDecoded(decode_instr(prog.text[a]), prog.text[a])

\* hart.pc.write(v)
PcWrite ==
    \E v \in {P(a) : a \in DOMAIN prog.text} \cup FaultPcs :
        /\ hart' = [hart EXCEPT !.pc = MutableWrite(v)]
        /\ pre' = hart'
        /\ last' = Op("pc_write", "none", Zero, Nop)
        /\ run' = Disturbed
        /\ UNCHANGED <<pokes, prog>>

\* hart.rf[k] = v
RfWrite ==
    \E kv \in RfPokes :
        /\ pokes < MaxPokes
        /\ hart' = [hart EXCEPT !.rf = RfSet(hart.rf, kv[1], kv[2])]
        /\ pre' = hart'
        /\ last' = Op("rf_write", "none", Zero, Nop)
        /\ pokes' = pokes + 1
        /\ run' = Disturbed
        /\ UNCHANGED prog

\* the state after the add_slave_port call ended as r
AttachTo(r) ==
    /\ hart' = [hart EXCEPT !.ports = r.ports]
    /\ pre' = hart'
    /\ last' = Op("add_slave_port", r.err, Zero, Nop)
    /\ run' = Disturbed
    /\ UNCHANGED <<pokes, prog>>

\* hart.system_bus.add_slave_port("sim control", start, SimSize,
\*                                hart.sim_control)
AttachSimControl ==
    \E start \in AttachStarts :
        prog.text = ProgTrigger /\ AttachTo(add_slave_port(hart.ports, "sim control", start, SimSize, "sim_control"))

\* hart.sim_control.add_trigger(0, lambda new, old: new == 1, halt)
AddTrigger ==
    /\ prog.text = ProgTrigger
    /\ hart' = [hart EXCEPT !.sim = add_trigger(hart.sim, 0, "eq1", "halt")]
    /\ pre' = hart'
    /\ last' = Op("add_trigger", "none", Zero, Nop)
    /\ run' = Disturbed
    /\ UNCHANGED <<pokes, prog>>

Next ==
    \/ Load
    \/ Step
    \/ Exec
    \/ PcWrite
    \/ RfWrite
    \/ AttachSimControl
    \/ AddTrigger

Spec == Init /\ [][Next]_vars

(***************************************************************************)
(* Properties                                                              *)
(***************************************************************************)

\* every register and the pc hold a value in [0, 2^32)
TypeOK ==
    /\ \A i \in RegIdx : hart.rf[i] = Masked(hart.rf[i])
    /\ hart.pc = Masked(hart.pc)

\* the last operation was a step() that returned
StepReturned == last.op = "step" /\ last.err = "none"

\* the last operation executed an instruction or failed to: step(), or exec()
\* on a decoded instruction
Ran == last.op \in {"step", "exec"}

\* the image has been loaded into the hart as built and step() called n times
Stepped_n(n) == run.loaded /\ run.clean /\ run.steps = n

\* the exceptions of a step that the specification calls faults
Faults == {"AddressMisaligned", "AccessFault", "UnallocatedAddress", "InvalidInstruction"}

\* C1: a step() over an instruction that is neither a branch nor a jump ends
\* with the pc at the pc before the step plus 4 (mod 2^32), and three
\* step() calls on ADDI x1,x0,5; ADDI x2,x1,7; ADD x3,x1,x2 loaded into a
\* hart as built leave x1 = 5, x2 = 12, x3 = 17.
C1_PcAdvancesBy4 ==
    /\ (StepReturned /\ last.instr.op \notin (BranchOps \cup JumpOps))
          => hart.pc = Masked(PAdd(pre.pc, P(4)))
    /\ (prog.text = ProgAddiChain /\ Stepped_n(3))
          => (hart.rf[1] = P(5) /\ hart.rf[2] = P(12) /\ hart.rf[3] = P(17))

\* C2: a step() over a branch at pc p with offset o ends with the pc at
\* (p + o) mod 2^32 when the condition of the branch holds on the registers,
\* and at p + 4 when it does not; in ADDI x1,x0,5; ADDI x2,x0,5; BEQ x1,x2,8;
\* ADDI x3,x0,1; ADDI x3,x0,2 loaded into a hart as built, the third step()
\* leaves the pc at 0x10 and the fourth leaves x3 = 2.
C2_BranchNextPc ==
    /\ (StepReturned /\ last.instr.op \in BranchOps)
          => hart.pc = IF BranchTaken(pre, last.instr)
                       THEN Masked(PAdd(pre.pc, last.instr.imm))
                       ELSE Masked(PAdd(pre.pc, P(4)))
    /\ (prog.text = ProgBranch /\ Stepped_n(3)) => hart.pc = P(16)
    /\ (prog.text = ProgBranch /\ Stepped_n(4)) => hart.rf[3] = P(2)

\* C3: a load reads the bus at (value of register rs1 + imm) mod 2^32 and
\* writes rd with the value read, sign-extended in LB and LH: the step ends
\* as that bus read ends, and rd holds its value as a 32-bit value.
C3_LoadFromRegisterValue ==
    (Ran /\ last.instr.op \in LoadOps)
        => LET n == CASE last.instr.op = "LoadWord" -> 4
                      [] last.instr.op \in {"LoadHalfword", "LoadHalfwordU"} -> 2
                      [] OTHER -> 1
               r == BusRead(pre, Masked(PAdd(pre.rf[last.instr.rs1], last.instr.imm)), n)
               v == IF last.instr.op \in {"LoadHalfword", "LoadByte"}
                    THEN Masked(se(r.val, 8 * n)) ELSE r.val
           IN  /\ last.err = r.err
               /\ (r.err = "none" /\ last.instr.rd # 0) => hart.rf[last.instr.rd] = v

\* C4: a store writes to the bus, at (value of register rs1 + imm) mod 2^32,
\* the low n bytes of the value of register rs2: the step ends as that bus
\* write ends and leaves the hart that bus write leaves.
C4_StoreRegisterValue ==
    (Ran /\ last.instr.op \in StoreOps)
        => LET n == CASE last.instr.op = "StoreWord" -> 4
                      [] last.instr.op = "StoreHalfword" -> 2
                      [] OTHER -> 1
               r == BusWrite(pre, Masked(PAdd(pre.rf[last.instr.rs1], last.instr.imm)),
                             PMod2(pre.rf[last.instr.rs2], 8 * n), n)
           IN  last.err = r.err /\ hart = r.h

\* C5: register 0 reads 0 in every state.
C5_X0IsZero == hart.rf[0] = Zero

\* an instruction whose rd is x0 and whose result is not 0 has been executed
C5_Witness ==
    /\ Ran /\ last.err = "none"
    /\ last.instr = Instr("AddImmediate", 0, 1, 0, P(1))
    /\ Masked(PAdd(pre.rf[1], P(1))) # Zero

\* C6: JAL at pc p with immediate imm leaves rd = (p + 4) mod 2^32 (x0 stays
\* 0), the other registers as they were and the pc at (p + imm) mod 2^32,
\* with no further 4 added; JAL x1,12 at 0x100 leaves x1 = 0x104, pc = 0x10C.
C6_JumpAndLink ==
    (Ran /\ last.instr.op = "JumpAndLink")
        => /\ last.err = "none"
           /\ hart.pc = Masked(PAdd(pre.pc, last.instr.imm))
           /\ \A i \in RegIdx :
                 hart.rf[i] = IF i = last.instr.rd /\ i # 0
                              THEN Masked(PAdd(pre.pc, P(4))) ELSE pre.rf[i]
           /\ (pre.pc = P(256) /\ last.instr = Instr("JumpAndLink", 1, 0, 0, P(12)))
                 => (hart.rf[1] = P(260) /\ hart.pc = P(268))

\* JAL x1,12 has been executed at pc 0x100
C6_Witness ==
    /\ Ran /\ last.err = "none"
    /\ last.instr = Instr("JumpAndLink", 1, 0, 0, P(12))
    /\ pre.pc = P(256)
    /\ hart.pc = P(268)

\* JAL with a negative immediate and rd = x0 has been executed
C6_WitnessBackward ==
    /\ Ran /\ last.err = "none"
    /\ last.instr = Instr("JumpAndLink", 0, 0, 0, P(-16))
    /\ hart.pc = P(256)

\* C7: JALR at pc p leaves rd = (p + 4) mod 2^32 and the pc at ((value of
\* rs1 before the instruction + imm) mod 2^32) with bit 0 cleared.
C7_JumpAndLinkRegister ==
    (Ran /\ last.instr.op = "JumpAndLinkRegister")
        => /\ last.err = "none"
           /\ hart.pc = PAnd(Masked(PAdd(pre.rf[last.instr.rs1], last.instr.imm)),
                             W(65535, 65534))
           /\ last.instr.rd # 0 => hart.rf[last.instr.rd] = Masked(PAdd(pre.pc, P(4)))

\* C8: a step() or exec() that fails with a fault leaves the hart as it was, and an LW
\* whose address (value of rs1 + imm) is congruent to 2 mod 4 fails with
\* AddressMisaligned and changes no register.
C8_FaultLeavesState ==
    Ran
        => /\ last.err \in Faults => hart = pre
           /\ (/\ last.instr.op = "LoadWord"
               /\ AddrMod(Masked(PAdd(pre.rf[last.instr.rs1], last.instr.imm)), 4) = 2)
                 => (last.err = "AddressMisaligned" /\ hart.rf = pre.rf)

\* sim-control is attached at SimBase, register 0 of it is allocated and the
\* halt trigger (new == 1) is on it
HaltArmed(h) ==
    /\ \E i \in 1 .. Len(h.ports) :
          /\ h.ports[i].peripheral = "sim_control"
          /\ h.ports[i].range.start = SimBase
    /\ get_register(h.sim, 0) # 0
    /\ \E i \in 1 .. Len(h.sim.triggers) :
          h.sim.triggers[i] = [addr |-> 0, test_func |-> "eq1", callback |-> "halt"]

\* C9: with the halt trigger armed, x1 = 1 and x6 = S, the halt flag is true
\* when SW x1,0(x6) has been executed.
C9_StoreHalts ==
    (/\ Ran
     /\ last.instr = Instr("StoreWord", 0, 6, 1, Zero)
     /\ HaltArmed(pre)
     /\ pre.rf[1] = P(1)
     /\ pre.rf[6] = P(SimBase))
        => hart.halt

\* C10: after construction the bus maps instruction memory at
\* [0, 0x200000), data memory at [0x200000, 0x800000) and the sim-control
\* peripheral at a range disjoint from both.
C10_BusAfterConstruction ==
    last.op = "init"
        => /\ \E i \in 1 .. Len(hart.ports) :
                 /\ hart.ports[i].peripheral = "instruction_memory"
                 /\ hart.ports[i].range.start = 0
                 /\ hart.ports[i].range.end = 2097151
           /\ \E i \in 1 .. Len(hart.ports) :
                 /\ hart.ports[i].peripheral = "data_memory"
                 /\ hart.ports[i].range.start = 2097152
                 /\ hart.ports[i].range.end = 8388607
           /\ \E i \in 1 .. Len(hart.ports) : hart.ports[i].peripheral = "sim_control"
           /\ \A i, j \in 1 .. Len(hart.ports) :
                 i # j => ~overlaps(hart.ports[i].range, hart.ports[j].range)

(***************************************************************************)
(* The system bus driven directly: hart.read, hart.write and               *)
(* system_bus.add_slave_port called by a driver on a hart as built.        *)
(***************************************************************************)

\* the name, start and size of the driver's add_slave_port calls for the
\* sim-control peripheral: next to data memory; over the end of data
\* memory; two bytes next to the first; over the middle of the first; two
\* bytes further up
BusAttaches ==
    {<<"sim control", SimBase, SimSize>>,
     <<"sim control", SimBase - 4, SimSize>>,
     <<"mirror", SimBase + SimSize, 2>>,
     <<"mirror", SimBase + (SimSize \div 2), SimSize>>,
     <<"mirror", SimBase + (2 * SimSize), 2>>}

\* the <<addr, n_bytes>> of the driver's reads
BusReads ==
    ({P(0), P(2), P(DATA_MEMORY_BASE), P(DATA_MEMORY_BASE + 1), P(SimBase),
      P(SimBase + 2), P(SimBase + SimSize), P(SimBase + SimSize + 1)}
         \X {1, 2, 4})
    \cup ({P(DATA_MEMORY_BASE), P(SimBase + SimSize + 1)} \X {0, 3, 8})

\* the <<addr, n_bytes, data>> of the driver's writes
BusWrites ==
    {<<P(0), 1, P(66)>>, <<P(DATA_MEMORY_BASE), 4, P(66)>>,
     <<P(DATA_MEMORY_BASE), 2, P(4660)>>, <<P(DATA_MEMORY_BASE + 1), 2, P(66)>>,
     <<P(DATA_MEMORY_BASE), 3, P(66)>>, <<P(SimBase), 4, W(\h8000, 0)>>,
     <<P(SimBase + SimSize), 2, W(\h8000, 0)>>,
     <<P(SimBase + SimSize + 1), 4, P(66)>>, <<P(SimBase + SimSize + 1), 1, P(66)>>}

\* hart.write calls in a behaviour
MaxBusWrites == 1

\* a call on the bus, a memory or a peripheral, and how it ended
Call(op, err, addr, n_bytes, data, val) ==
    [op |-> op, err |-> err, addr |-> addr, n_bytes |-> n_bytes, data |-> data,
     val |-> val]

\* a hart as built
BusInit ==
    /\ hart = HartInit
    /\ pre = hart
    /\ last = Call("init", "none", Zero, 0, Zero, Zero)
    /\ pokes = 0
    /\ prog = Image(ProgLoadStore, DataLoadStore)
    /\ run = [loaded |-> FALSE, clean |-> FALSE, steps |-> 0]

\* hart.read(addr, n_bytes)
HartRead ==
    \E a \in BusReads :
        LET r == BusRead(hart, a[1], a[2])
        IN  /\ last' = Call("read", r.err, a[1], a[2], Zero, r.val)
            /\ pre' = hart
            /\ UNCHANGED <<hart, pokes, prog, run>>

\* hart.write(addr, data, n_bytes)
HartWrite ==
    \E a \in BusWrites :
        LET r == BusWrite(hart, a[1], a[3], a[2])
        IN  /\ pokes < MaxBusWrites
            /\ hart' = r.h
            /\ pre' = hart
            /\ last' = Call("write", r.err, a[1], a[2], a[3], Zero)
            /\ pokes' = pokes + 1
            /\ UNCHANGED <<prog, run>>

\* hart.system_bus.add_slave_port(name, start, size, hart.sim_control)
BusAttach ==
    \E a \in BusAttaches :
        LET r == add_slave_port(hart.ports, a[1], a[2], a[3], "sim_control")
        IN  /\ hart' = [hart EXCEPT !.ports = r.ports]
            /\ pre' = hart
            /\ last' = Call("add_slave_port", r.err, P(a[2]), a[3], Zero, Zero)
            /\ UNCHANGED <<pokes, prog, run>>

BusNext ==
    \/ HartRead
    \/ HartWrite
    \/ BusAttach

SpecBus == BusInit /\ [][BusNext]_vars

(***************************************************************************)
(* Properties of the bus                                                   *)
(***************************************************************************)

BusTypeOK ==
    /\ last.op \in {"init", "read", "write", "add_slave_port"}
    /\ pokes \in 0 .. MaxBusWrites
    /\ hart.pc = Zero

BusCall == last.op \in {"read", "write"}

PowerOfTwo(n) == \E k \in 0 .. 4 : n = 2 ^ k

\* the ports of a table whose range [start, start + size) holds the
\* n_bytes at addr
Holding(ports, addr, n_bytes) ==
    {i \in 1 .. Len(ports) :
        /\ ports[i].range.start <= ToInt(addr)
        /\ ToInt(addr) + n_bytes <= ports[i].range.start + ports[i].range.size}

\* the error of the first validation rule that rejects the access
Validation(ports, addr, n_bytes) ==
    IF n_bytes = 0 \/ ~PowerOfTwo(n_bytes) THEN "AddressMisaligned"
    ELSE IF n_bytes > 4 THEN "AddressMisaligned"
    ELSE IF ToInt(addr) % n_bytes # 0 THEN "AddressMisaligned"
    ELSE IF Holding(ports, addr, n_bytes) = {} THEN "AccessFault"
    ELSE "none"

\* the error the validation rules give the last bus call
Rejection == Validation(pre.ports, last.addr, last.n_bytes)

\* C11: a bus read or write is validated in the order width not a power of
\* two or zero, width above 4, address not a multiple of the width (all
\* AddressMisaligned), no range holding the whole access (AccessFault); a
\* rejected access leaves every peripheral as it was, and an access that
\* passes reports neither error
C11_ValidationOrder ==
    BusCall =>
        /\ Rejection # "none" => last.err = Rejection /\ hart = pre
        /\ Rejection = "none" => last.err \notin {"AddressMisaligned", "AccessFault"}

\* a two-byte read at an odd address that no port maps ended AddressMisaligned
C11_Witness ==
    /\ last.op = "read"
    /\ last.n_bytes = 2
    /\ last.addr = P(SimBase + SimSize + 1)
    /\ Holding(pre.ports, last.addr, 1) = {}
    /\ last.err = "AddressMisaligned"

\* the device of a hart that a peripheral name stands for
Device(h, peripheral) ==
    CASE peripheral = "instruction_memory" -> h.imem
      [] peripheral = "data_memory" -> h.dmem
      [] peripheral = "sim_control" -> h.sim

\* the access to the device of a port at the offset addr - range.start
Target(port, addr) ==
    [err |-> "none", peripheral |-> port.peripheral,
     offset |-> ToInt(addr) - port.range.start]

\* the last bus call was the read or write of the device of the port at
\* that offset, and the other devices are as they were
DispatchedTo(port) ==
    /\ IF last.op = "read"
       THEN /\ hart = pre
            /\ [err |-> last.err, val |-> last.val]
                   = ReadAccess(pre, Target(port, last.addr), last.n_bytes)
       ELSE [err |-> last.err, h |-> hart]
                = WriteAccess(pre, Target(port, last.addr), last.data, last.n_bytes)
    /\ \A d \in {"instruction_memory", "data_memory", "sim_control"} :
           d # port.peripheral => Device(hart, d) = Device(pre, d)

\* C12: a valid bus read or write goes to the one peripheral whose range
\* holds [addr, addr + n) with the offset addr - range.start, and no other
\* peripheral is read or written
C12_Dispatch ==
    BusCall /\ Rejection = "none" =>
        \E i \in 1 .. Len(pre.ports) :
            /\ Holding(pre.ports, last.addr, last.n_bytes) = {i}
            /\ DispatchedTo(pre.ports[i])

\* a four-byte write at the base of data memory changed offset 0 of it
C12_Witness ==
    /\ last.op = "write"
    /\ last.err = "none"
    /\ last.addr = P(DATA_MEMORY_BASE)
    /\ last.n_bytes = 4
    /\ Elem(pre.dmem, 0) = Zero
    /\ Elem(hart.dmem, 0) = P(66)

\* the ranges [start, start + size) of r and s have an address in common
Intersect(r, s) == r.start < s.start + s.size /\ s.start < r.start + r.size

\* the range of the last add_slave_port call
Attached == [start |-> ToInt(last.addr), size |-> last.n_bytes]

\* C13: the ranges registered on the bus never overlap one another: an
\* add_slave_port whose range intersects a registered one fails and leaves
\* the table as it was, any other one succeeds and registers the range,
\* also when it starts where a registered range ends
C13_RangesDisjoint ==
    /\ \A i, j \in 1 .. Len(hart.ports) :
           i # j => ~Intersect(hart.ports[i].range, hart.ports[j].range)
    /\ last.op = "add_slave_port" =>
           IF \E i \in 1 .. Len(pre.ports) : Intersect(Attached, pre.ports[i].range)
           THEN last.err = "ValueError" /\ hart = pre
           ELSE /\ last.err = "none"
                /\ \E i \in 1 .. Len(hart.ports) :
                       /\ hart.ports[i].range.start = Attached.start
                       /\ hart.ports[i].range.size = Attached.size

\* an add_slave_port of a range that starts where a registered one ends
\* succeeded
C13_Witness ==
    /\ last.op = "add_slave_port"
    /\ last.err = "none"
    /\ \E i \in 1 .. Len(pre.ports) :
           pre.ports[i].range.start + pre.ports[i].range.size = Attached.start
    /\ Len(hart.ports) = Len(pre.ports) + 1

(***************************************************************************)
(* The memories driven directly: hart.data_memory.read and .write called   *)
(* by a driver, hart.load, and hart.read of the loaded memories.  `last`   *)
(* is the pair of the call before the last one and the last one.           *)
(***************************************************************************)

\* the addresses of the driver's calls on data memory: inside, over the
\* end, past the end
MemAddrs == {8, 9, DataMemoryInit.size - 2, DataMemoryInit.size}

\* the <<data, n_bytes>> of the driver's writes
MemData == {<<P(66), 1>>, <<P(4660), 2>>, <<W(4660, 22136), 4>>, <<P(4660), 1>>}

\* hart.data_memory.write calls in a behaviour
MaxMemWrites == 1

MemInit ==
    /\ hart = HartInit
    /\ pre = hart
    /\ last = <<Call("init", "none", Zero, 0, Zero, Zero),
                Call("init", "none", Zero, 0, Zero, Zero)>>
    /\ pokes = 0
    /\ prog = Image(ProgLoadStore, DataLoadStore)
    /\ run = [loaded |-> FALSE, clean |-> FALSE, steps |-> 0]

\* hart.data_memory.read(addr, n_bytes)
MemRead ==
    \E addr \in MemAddrs, n_bytes \in {1, 2, 4} :
        LET r == MemoryRead(hart.dmem, addr, n_bytes)
        IN  /\ last' = <<last[2], Call("mem_read", r.err, P(addr), n_bytes, Zero, r.val)>>
            /\ pre' = hart
            /\ UNCHANGED <<hart, pokes, prog, run>>

\* hart.data_memory.write(addr, data, n_bytes)
MemWrite ==
    \E addr \in MemAddrs, d \in MemData :
        LET r == MemoryWrite(hart.dmem, addr, d[1], d[2])
        IN  /\ pokes < MaxMemWrites
            /\ hart' = [hart EXCEPT !.dmem = r.mem]
            /\ pre' = hart
            /\ last' = <<last[2], Call("mem_write", r.err, P(addr), d[2], d[1], Zero)>>
            /\ pokes' = pokes + 1
            /\ UNCHANGED <<prog, run>>

\* hart.load(elf_path) of the image
MemLoad ==
    /\ ~run.loaded
    /\ hart' = load(hart, prog)
    /\ pre' = hart
    /\ last' = <<last[2], Call("load", "none", Zero, 0, Zero, Zero)>>
    /\ run' = [run EXCEPT !.loaded = TRUE]
    /\ UNCHANGED <<pokes, prog>>

\* hart.read(addr, 4) of a word of instruction memory or of data memory
MemBusRead ==
    \E base \in {INSTRUCTION_MEMORY_BASE, DATA_MEMORY_BASE}, i \in {0, 4, 8} :
        LET r == BusRead(hart, P(base + i), 4)
        IN  /\ last' = <<last[2], Call("read", r.err, P(base + i), 4, Zero, r.val)>>
            /\ pre' = hart
            /\ UNCHANGED <<hart, pokes, prog, run>>

MemNext ==
    \/ MemRead
    \/ MemWrite
    \/ MemLoad
    \/ MemBusRead

SpecMem == MemInit /\ [][MemNext]_vars

(***************************************************************************)
(* Properties of the memories                                              *)
(***************************************************************************)

MemTypeOK ==
    /\ \A k \in 1 .. 2 : last[k].op \in {"init", "mem_read", "mem_write", "load", "read"}
    /\ pokes \in 0 .. MaxMemWrites
    /\ hart.imem.size = InstructionMemoryInit.size
    /\ \A i \in DOMAIN hart.dmem.contents : i \in 0 .. (hart.dmem.size - 1)

\* the n_bytes at addr of the call c lie inside data memory
Inside(c) == ToInt(c.addr) + c.n_bytes <= pre.dmem.size

\* the last call is a read of the bytes that the call before it wrote, of
\* a value that fits in them
ReadBack ==
    /\ last[1].op = "mem_write"
    /\ last[2].op = "mem_read"
    /\ last[2].addr = last[1].addr
    /\ last[2].n_bytes = last[1].n_bytes
    /\ ToInt(last[1].addr) % last[1].n_bytes = 0
    /\ Inside(last[1])
    /\ PShr(last[1].data, 8 * last[1].n_bytes) = Zero

\* C14: write(a, v, n) followed by read(a, n), for an n-aligned a with
\* [a, a + n) inside the memory, returns v & (2^(8n) - 1), and the write
\* leaves the bytes outside [a, a + n) as they were
C14_WriteThenRead ==
    /\ ReadBack =>
           last[2].err = "none" /\ last[2].val = PMod2(last[1].data, 8 * last[1].n_bytes)
    /\ last[2].op = "mem_write" /\ Inside(last[2]) =>
           \A i \in (DOMAIN pre.dmem.contents) \cup (DOMAIN hart.dmem.contents) :
               i \notin ToInt(last[2].addr) .. (ToInt(last[2].addr) + last[2].n_bytes - 1)
                   => Elem(hart.dmem, i) = Elem(pre.dmem, i)

\* C15: a write of a value that does not fit in n bytes succeeds and
\* stores the low n bytes of the value
C15_WriteTruncates ==
    /\ last[2].op = "mem_write"
    /\ Inside(last[2])
    /\ PShr(last[2].data, 8 * last[2].n_bytes) # Zero
    => /\ last[2].err = "none"
       /\ \A i \in 0 .. (last[2].n_bytes - 1) :
              Elem(hart.dmem, ToInt(last[2].addr) + i) = ByteOf(last[2].data, i)

\* C16: a read or write of a memory whose bytes [addr, addr + n) are not
\* all inside [0, size) fails with AccessFault and leaves the contents as
\* they were
C16_OutOfRangeFaults ==
    last[2].op \in {"mem_read", "mem_write"} /\ ~Inside(last[2]) =>
        last[2].err = "AccessFault" /\ hart = pre

\* C17: after load, a 4-byte bus read at INSTRUCTION_MEMORY_BASE + i, for a
\* word-aligned i inside the executable segment, returns the little-endian
\* word of the segment at i, and the bytes of the other segment are in
\* data memory from offset 0
C17_LoadedWords ==
    /\ last[1].op = "load" /\ last[2].op = "read" =>
           \A i \in DOMAIN prog.text :
               last[2].addr = P(INSTRUCTION_MEMORY_BASE + i)
                   => last[2].err = "none" /\ last[2].val = prog.text[i]
    /\ last[2].op = "load" =>
           \A j \in 0 .. (SegLen(prog.data) - 1) :
               Elem(hart.dmem, j) = IF j \in DOMAIN prog.data THEN prog.data[j] ELSE Zero

(***************************************************************************)
(* The peripheral driven directly: alloc_register, set_register and read   *)
(* of hart.sim_control called by a driver.  `last` is the pair of the call *)
(* before the last one and the last one.                                   *)
(***************************************************************************)

\* alloc_register and set_register calls in a behaviour
MaxPeriCalls == 2

PeriInit ==
    /\ hart = HartInit
    /\ pre = hart
    /\ last = <<Call("init", "none", Zero, 0, Zero, Zero),
                Call("init", "none", Zero, 0, Zero, Zero)>>
    /\ pokes = 0
    /\ prog = Image(ProgTrigger, <<>>)
    /\ run = [loaded |-> FALSE, clean |-> FALSE, steps |-> 0]

\* hart.sim_control.alloc_register(addr)
PeriAlloc ==
    \E addr \in {0, 4} :
        /\ pokes < MaxPeriCalls
        /\ hart' = [hart EXCEPT !.sim = alloc_register(hart.sim, addr).peri]
        /\ pre' = hart
        /\ last' = <<last[2], Call("alloc_register", "none", P(addr), 0, Zero, Zero)>>
        /\ pokes' = pokes + 1
        /\ UNCHANGED <<prog, run>>

\* hart.sim_control.set_register(addr, val); self._register_values[idx] = val
\* raises IndexError, after the allocation, when idx is past the array
PeriSet ==
    \E addr \in {0, 4}, val \in {W(43707, 52445)} :
        LET peri == set_register(hart.sim, addr, val)
            err == IF get_register(peri, addr) \in WordIdx THEN "none" ELSE "IndexError"
        IN  /\ pokes < MaxPeriCalls
            /\ hart' = [hart EXCEPT !.sim = peri]
            /\ pre' = hart
            /\ last' = <<last[2], Call("set_register", err, P(addr), 0, val, Zero)>>
            /\ pokes' = pokes + 1
            /\ UNCHANGED <<prog, run>>

\* hart.sim_control.read(addr, n_bytes)
PeriRead ==
    \E addr \in 0 .. 7, n_bytes \in {1, 2, 4} :
        LET r == PeripheralRead(hart.sim, addr, n_bytes)
        IN  /\ last' = <<last[2], Call("peri_read", r.err, P(addr), n_bytes, Zero, r.val)>>
            /\ pre' = hart
            /\ UNCHANGED <<hart, pokes, prog, run>>

\* hart.sim_control.write(addr, data, n_bytes); `val` of the call holds the
\* callbacks invoked, in order, and the arguments they were invoked with
PeriWrite ==
    \E a \in {<<0, P(43707), 4>>, <<0, W(43707, 52445), 4>>, <<1, P(43707), 1>>,
               <<4, P(43707), 2>>, <<8, P(43707), 4>>} :
        LET r == PeripheralWrite(hart.sim, a[1], a[2], a[3])
        IN  /\ pokes < MaxPeriCalls
            /\ hart' = [hart EXCEPT !.sim = r.peri]
            /\ pre' = hart
            /\ last' = <<last[2],
                         Call("peri_write", r.err, P(a[1]), a[3], a[2],
                              [fired |-> [i \in 1 .. Len(r.fired) |-> r.fired[i].callback],
                               args |-> r.args])>>
            /\ pokes' = pokes + 1
            /\ UNCHANGED <<prog, run>>

\* hart.sim_control.add_trigger(addr, test_func, callback)
PeriAddTrigger ==
    \E t \in {<<0, "eqAABB", "first">>, <<0, "eqAABB", "second">>,
               <<0, "always", "second">>, <<4, "always", "first">>} :
        /\ pokes < MaxPeriCalls
        /\ hart' = [hart EXCEPT !.sim = add_trigger(hart.sim, t[1], t[2], t[3])]
        /\ pre' = hart
        /\ last' = <<last[2], Call("add_trigger", "none", P(t[1]), 0, Zero, <<t[2], t[3]>>)>>
        /\ pokes' = pokes + 1
        /\ UNCHANGED <<prog, run>>

PeriNext ==
    \/ PeriAlloc
    \/ PeriSet
    \/ PeriRead
    \/ PeriWrite
    \/ PeriAddTrigger

SpecPeri == PeriInit /\ [][PeriNext]_vars

(***************************************************************************)
(* Properties of the peripheral                                            *)
(***************************************************************************)

PeriTypeOK ==
    /\ \A k \in 1 .. 2 :
           last[k].op \in {"init", "alloc_register", "set_register", "peri_read",
                            "peri_write", "add_trigger"}
    /\ pokes \in 0 .. MaxPeriCalls
    /\ \A i \in WordIdx : hart.sim.lookup[i] \in 0 .. (1 + MaxPeriCalls)
    /\ last[2].err \in {"none", "UnallocatedAddress"}

\* the last call is a 4-byte read at the address of the call before it,
\* which was the call op
ReadAfter(op) ==
    /\ last[1].op = op
    /\ last[2].op = "peri_read"
    /\ last[2].addr = last[1].addr
    /\ last[2].n_bytes = 4

\* C18: alloc_register of an address whose word is allocated leaves the
\* values and the address mapping of the peripheral as they were, and a
\* first alloc_register (here the one of address 4 on the peripheral as
\* built) makes the word readable with value 0
C18_ReallocNoOp ==
    /\ (last[2].op = "alloc_register" /\ get_register(pre.sim, ToInt(last[2].addr)) # 0)
           => hart.sim = pre.sim
    /\ (ReadAfter("alloc_register") /\ pokes = 1 /\ last[1].addr = P(4))
           => (last[2].err = "none" /\ last[2].val = Zero)

\* C19: set_register(a, v) followed by read(a, 4) returns v
C19_SetThenRead ==
    ReadAfter("set_register") => last[2].err = "none" /\ last[2].val = last[1].data

\* the last two calls are reads of one register: the whole word, then
\* n_bytes of it at an address that is a multiple of n_bytes
LaneRead ==
    /\ last[1].op = "peri_read"
    /\ last[1].n_bytes = 4
    /\ last[1].err = "none"
    /\ ToInt(last[1].addr) % 4 = 0
    /\ last[2].op = "peri_read"
    /\ ToInt(last[2].addr) \div 4 = ToInt(last[1].addr) \div 4
    /\ ToInt(last[2].addr) % last[2].n_bytes = 0

\* C20: for a register that reads as the word w at a: read(a + k, 1) is
\* (w >> 8k) & 0xFF, read(a, 2) is w & 0xFFFF, read(a + 2, 2) is
\* (w >> 16) & 0xFFFF and read(a, 4) is w
C20_ReadLanes ==
    LaneRead =>
        /\ last[2].err = "none"
        /\ last[2].val = PMod2(PShr(last[1].val, 8 * (ToInt(last[2].addr) % 4)),
                               8 * last[2].n_bytes)

\* the index of the register of the call c, and the word stored for it
IndexOf(c) == get_register(pre.sim, ToInt(c.addr))

Word(peri, c) == peri.values[IndexOf(c)]

\* the word old with the n_bytes lane at addr replaced by the low n_bytes
\* of data
LaneReplaced(old, addr, data, n_bytes) ==
    POr(PAnd(old, PInv(PShl(PSub(PShl(P(1), 8 * n_bytes), P(1)), 8 * (addr % 4)))),
        PShl(PMod2(data, 8 * n_bytes), 8 * (addr % 4)))

PeriWritten == last[2].op = "peri_write" /\ last[2].err = "none"

\* C21: a write to an allocated register replaces the n-byte lane selected
\* by addr with the low n bytes of data and keeps every other bit and every
\* other register; after write(a, v, 4) at a word-aligned a, read(a + k, 1)
\* returns byte k of v
C21_WriteLane ==
    /\ PeriWritten =>
           /\ Word(hart.sim, last[2])
                  = LaneReplaced(Word(pre.sim, last[2]), ToInt(last[2].addr),
                                 last[2].data, last[2].n_bytes)
           /\ \A i \in WordIdx \ {IndexOf(last[2])} :
                  hart.sim.values[i] = pre.sim.values[i]
    /\ (/\ last[1].op = "peri_write"
        /\ last[1].err = "none"
        /\ last[1].n_bytes = 4
        /\ ToInt(last[1].addr) % 4 = 0
        /\ last[2].op = "peri_read"
        /\ last[2].n_bytes = 1
        /\ ToInt(last[2].addr) \div 4 = ToInt(last[1].addr) \div 4)
           => (/\ last[2].err = "none"
               /\ last[2].val = ByteOf(last[1].data, ToInt(last[2].addr) % 4))

PeriAccess == last[2].op \in {"peri_read", "peri_write"}

\* C22: a read or write at an address whose word was never allocated fails
\* with UnallocatedAddress, changes nothing and fires no trigger; on a
\* peripheral as constructed this is so for every address, 0 included
C22_UnallocatedFails ==
    /\ (PeriAccess /\ IndexOf(last[2]) = 0) =>
           (/\ last[2].err = "UnallocatedAddress"
            /\ hart = pre
            /\ last[2].op = "peri_write" => last[2].val.fired = <<>>)
    /\ (PeriAccess /\ pre.sim = SimControlInit) => last[2].err = "UnallocatedAddress"

\* the trigger of the last add_trigger call
Added ==
    [addr |-> ToInt(last[2].addr), test_func |-> last[2].val[1],
     callback |-> last[2].val[2]]

\* the callbacks of a sequence of triggers
Callbacks(triggers) == [i \in 1 .. Len(triggers) |-> triggers[i].callback]

\* C23: every add_trigger appends a trigger to the ones registered, and a
\* write to an address invokes, in the order of registration and once
\* each, the callbacks of the triggers on that address whose predicate
\* returned true, and no callback of a trigger on another address
C23_TriggersAppend ==
    /\ last[2].op = "add_trigger" => hart.sim.triggers = Append(pre.sim.triggers, Added)
    /\ PeriWritten =>
           last[2].val.fired
               = Callbacks(SelectSeq(pre.sim.triggers,
                     LAMBDA t : /\ t.addr = ToInt(last[2].addr)
                                /\ TestFunc(t.test_func, last[2].val.args[1],
                                            last[2].val.args[2])))

\* C24: the predicates and callbacks of a write are called with new = the
\* word now stored in the register and old = the word stored before, and a
\* write of 0xAABB to a register holding 0 with a trigger whose predicate
\* is new == 0xAABB invokes its callback
C24_TriggerArguments ==
    /\ (PeriWritten /\ last[2].val.fired # <<>>) =>
           last[2].val.args = <<Word(hart.sim, last[2]), Word(pre.sim, last[2])>>
    /\ (/\ PeriWritten
        /\ last[2].data = P(43707)
        /\ last[2].n_bytes = 4
        /\ Word(pre.sim, last[2]) = Zero
        /\ \E i \in 1 .. Len(pre.sim.triggers) :
               /\ pre.sim.triggers[i].addr = ToInt(last[2].addr)
               /\ pre.sim.triggers[i].test_func = "eqAABB")
           => last[2].val.fired # <<>>

\* C39: for two distinct allocated word addresses a and b, set_register(a, v)
\* or write(a, v, n) does not change the value read(b, 4) returns: each
\* allocated address has a storage cell of its own.
C39_RegistersApart ==
    \A b \in {0, 4} :
        (/\ last[2].op \in {"set_register", "peri_write"}
         /\ last[2].err = "none"
         /\ ToInt(last[2].addr) \div 4 # b \div 4
         /\ get_register(pre.sim, ToInt(last[2].addr)) # 0
         /\ get_register(pre.sim, b) # 0)
            => PeripheralRead(hart.sim, b, 4) = PeripheralRead(pre.sim, b, 4)

(***************************************************************************)
(* The decoder driven directly: decode_instr of a word and == of two       *)
(* instructions.  `last` is the last call.                                 *)
(***************************************************************************)

\* Instruction.__eq__: self._frame == other._frame and
\* self.frame_type == other.frame_type.  The frame is the dict of the
\* fields of the frame type of the class.
InstrEq(self, other) ==
    LET frame_type(i) ==
            CASE i.op \in LoadOps \cup {"JumpAndLinkRegister"} -> "IType"
              [] i.op \in StoreOps -> "SType"
              [] i.op \in BranchOps -> "BType"
              [] i.op \in {"LoadUpperImmediate", "AddUpperImmediateToPc"} -> "UType"
              [] i.op = "JumpAndLink" -> "JType"
              [] i.op \in {"Add", "Sub", "ShiftLeftLogical", "SetOnLessThan",
                           "SetOnLessThanU", "ExclusiveOr", "ShiftRightLogical",
                           "ShiftRightArithmetic", "Or", "And"} -> "RType"
              [] OTHER -> "IType"
        frame(i) ==
            CASE frame_type(i) = "IType" -> <<"rd", i.rd, "rs1", i.rs1, "imm", i.imm>>
              [] frame_type(i) = "RType" -> <<"rd", i.rd, "rs1", i.rs1, "rs2", i.rs2>>
              [] frame_type(i) \in {"SType", "BType"} ->
                     <<"rs1", i.rs1, "rs2", i.rs2, "imm", i.imm>>
              [] OTHER -> <<"rd", i.rd, "imm", i.imm>>
    IN  frame(self) = frame(other) /\ frame_type(self) = frame_type(other)

\* the instructions the driver decodes from their encodings: every
\* operation of RV32I with some registers and the ends of the range of its
\* immediate
Canon ==
    LET regs == {<<0, 0, 0>>, <<1, 2, 3>>, <<31, 31, 31>>, <<5, 0, 31>>}
    IN  {Instr(op, r[1], r[2], 0, P(m)) :
            op \in LoadOps \cup {"JumpAndLinkRegister", "AddImmediate",
                                 "SetOnLessThanImmediate", "SetOnLessThanImmediateU",
                                 "ExclusiveOrImmediate", "OrImmediate", "AndImmediate"},
            r \in regs, m \in {-2048, -1, 0, 42, 2047}}
        \cup {Instr(op, r[1], r[2], 0, P(m)) :
                 op \in {"ShiftLeftLogicalImmediate", "ShiftRightLogicalImmediate",
                         "ShiftRightArithmeticImmediate"},
                 r \in regs, m \in {0, 5, 31}}
        \cup {Instr(op, 0, r[2], r[3], P(m)) :
                 op \in StoreOps, r \in regs, m \in {-2048, -8, 0, 12, 2047}}
        \cup {Instr(op, r[1], r[2], r[3], Zero) :
                 op \in {"Add", "Sub", "ShiftLeftLogical", "SetOnLessThan",
                         "SetOnLessThanU", "ExclusiveOr", "ShiftRightLogical",
                         "ShiftRightArithmetic", "Or", "And"},
                 r \in regs}
        \cup {Instr(op, 0, r[2], r[3], P(m)) :
                 op \in BranchOps, r \in regs, m \in {-4096, -2, 0, 64, 4094}}
        \cup {Instr(op, r[1], 0, 0, m) :
                 op \in {"LoadUpperImmediate", "AddUpperImmediateToPc"},
                 r \in regs, m \in {Zero, W(\hDEAD, \hB000), W(\hFFFF, \hF000)}}
        \cup {Instr("JumpAndLink", r[1], 0, 0, P(m)) :
                 r \in regs, m \in {-1048576, -32, 0, 2, 1048574}}

\* the word the assembler produces for an instruction: the standard RV32I
\* encoding
Encode(i) ==
    LET at(v, k) == PShl(P(v), k)
        sum(a, b, c, d, e, f) == PAdd(PAdd(PAdd(a, b), PAdd(c, d)), PAdd(e, f))
        rtype(f7, f3) ==
            sum(at(f7, 25), at(i.rs2, 20), at(i.rs1, 15), at(f3, 12), at(i.rd, 7), P(51))
        itype(opcode, f3, imm12) ==
            sum(at(imm12, 20), Zero, at(i.rs1, 15), at(f3, 12), at(i.rd, 7), P(opcode))
        stype(f3, imm12) ==
            sum(at(imm12 \div 32, 25), at(i.rs2, 20), at(i.rs1, 15), at(f3, 12),
                at(imm12 % 32, 7), P(35))
        btype(f3, imm13) ==
            sum(PAdd(at(imm13 \div 4096, 31), at((imm13 \div 32) % 64, 25)),
                at(i.rs2, 20), at(i.rs1, 15), at(f3, 12),
                PAdd(at((imm13 \div 2) % 16, 8), at((imm13 \div 2048) % 2, 7)), P(99))
        utype(opcode) == sum(i.imm, Zero, Zero, Zero, at(i.rd, 7), P(opcode))
        jtype(imm21) ==
            sum(at(imm21 \div 1048576, 31), at((imm21 \div 2) % 1024, 21),
                at((imm21 \div 2048) % 2, 20), at((imm21 \div 4096) % 256, 12),
                at(i.rd, 7), P(111))
        imm12 == ToInt(i.imm) % 4096
    IN  CASE i.op = "LoadByte" -> itype(3, 0, imm12)
          [] i.op = "LoadHalfword" -> itype(3, 1, imm12)
          [] i.op = "LoadWord" -> itype(3, 2, imm12)
          [] i.op = "LoadByteU" -> itype(3, 4, imm12)
          [] i.op = "LoadHalfwordU" -> itype(3, 5, imm12)
          [] i.op = "StoreByte" -> stype(0, imm12)
          [] i.op = "StoreHalfword" -> stype(1, imm12)
          [] i.op = "StoreWord" -> stype(2, imm12)
          [] i.op = "AddImmediate" -> itype(19, 0, imm12)
          [] i.op = "SetOnLessThanImmediate" -> itype(19, 2, imm12)
          [] i.op = "SetOnLessThanImmediateU" -> itype(19, 3, imm12)
          [] i.op = "ExclusiveOrImmediate" -> itype(19, 4, imm12)
          [] i.op = "OrImmediate" -> itype(19, 6, imm12)
          [] i.op = "AndImmediate" -> itype(19, 7, imm12)
          [] i.op = "ShiftLeftLogicalImmediate" -> itype(19, 1, imm12)
          [] i.op = "ShiftRightLogicalImmediate" -> itype(19, 5, imm12)
          [] i.op = "ShiftRightArithmeticImmediate" -> itype(19, 5, 1024 + imm12)
          [] i.op = "Add" -> rtype(0, 0)
          [] i.op = "Sub" -> rtype(32, 0)
          [] i.op = "ShiftLeftLogical" -> rtype(0, 1)
          [] i.op = "SetOnLessThan" -> rtype(0, 2)
          [] i.op = "SetOnLessThanU" -> rtype(0, 3)
          [] i.op = "ExclusiveOr" -> rtype(0, 4)
          [] i.op = "ShiftRightLogical" -> rtype(0, 5)
          [] i.op = "ShiftRightArithmetic" -> rtype(32, 5)
          [] i.op = "Or" -> rtype(0, 6)
          [] i.op = "And" -> rtype(0, 7)
          [] i.op = "BranchEqual" -> btype(0, ToInt(i.imm) % 8192)
          [] i.op = "BranchNotEqual" -> btype(1, ToInt(i.imm) % 8192)
          [] i.op = "BranchOnLessThan" -> btype(4, ToInt(i.imm) % 8192)
          [] i.op = "BranchOnGreaterThanEqual" -> btype(5, ToInt(i.imm) % 8192)
          [] i.op = "BranchOnLessThanU" -> btype(6, ToInt(i.imm) % 8192)
          [] i.op = "BranchOnGreaterThanEqualU" -> btype(7, ToInt(i.imm) % 8192)
          [] i.op = "JumpAndLinkRegister" -> itype(103, 0, imm12)
          [] i.op = "JumpAndLink" -> jtype(ToInt(i.imm) % 2097152)
          [] i.op = "LoadUpperImmediate" -> utype(55)
          [] i.op = "AddUpperImmediateToPc" -> utype(23)

\* decode_instr of the words the driver decodes: the encodings of the
\* instructions above; words of a known opcode with a funct3 or funct7 of no
\* operation (load 011, store 011, op 000/0000001, op-imm 101/0000001,
\* branch 010); words of no known opcode; SLLI, SRLI and SRAI words with
\* other upper bits; FENCE, FENCE.TSO, ECALL, EBREAK and CSRRW words
Decodings ==
    LET DecodeWords ==
            {Encode(i) : i \in Canon}
            \cup {W(\h0000, \h3003), W(\h0000, \h3023), W(\h0200, \h0033),
                  W(\h0200, \h5013), W(\h0000, \h2063), W(\hFFFF, \hFFFF),
                  W(\h0000, \h0000), W(\h0000, \h007F), W(\h4020, \h9093),
                  W(\hFE20, \h9093), W(\h4020, \hD093), W(\h0020, \hD093),
                  W(\h0FF0, \h000F), W(\h8330, \h000F), W(\h0000, \h0073),
                  W(\h0010, \h0073), W(\h3052, \h9073)}
    IN  [word \in DecodeWords |-> decode_instr(word)]

DecodeInit ==
    /\ hart = HartInit
    /\ pre = hart
    /\ last = Call("init", "none", Zero, 0, Zero, Zero)
    /\ pokes = 0
    /\ prog = Image(ProgAddiChain, <<>>)
    /\ run = [loaded |-> FALSE, clean |-> FALSE, steps |-> 0]

\* decode_instr(word); `val` of the call is the instruction returned
DecodeWord ==
    \E word \in DOMAIN Decodings :
        /\ last' = Call("decode", Decodings[word].err, word, 0, Zero, Decodings[word].instr)
        /\ pre' = hart
        /\ UNCHANGED <<hart, pokes, prog, run>>

\* a == b for two instructions constructed from frames
Compare ==
    \E a, b \in {Instr("Add", 1, 2, 3, Zero), Instr("Sub", 1, 2, 3, Zero),
                 Instr("Add", 3, 2, 1, Zero), Instr("LoadByte", 1, 2, 0, P(12)),
                 Instr("LoadWord", 1, 2, 0, P(12)), Instr("AddImmediate", 1, 2, 0, P(12)),
                 Instr("AddImmediate", 1, 2, 0, P(-12)), Instr("StoreWord", 0, 1, 2, P(12)),
                 Instr("BranchEqual", 0, 1, 2, P(12)),
                 Instr("LoadUpperImmediate", 1, 0, 0, P(4096)),
                 Instr("JumpAndLink", 1, 0, 0, P(4096))} :
        /\ last' = Call("eq", "none", Zero, 0, Zero, [a |-> a, b |-> b, eq |-> InstrEq(a, b)])
        /\ pre' = hart
        /\ UNCHANGED <<hart, pokes, prog, run>>

DecodeNext ==
    \/ DecodeWord
    \/ Compare

SpecDecode == DecodeInit /\ [][DecodeNext]_vars

(***************************************************************************)
(* Properties of the decoder                                               *)
(***************************************************************************)

DecodeTypeOK ==
    /\ last.op \in {"init", "decode", "eq"}
    /\ last.err \in {"none", "InvalidInstruction"}
    /\ hart = HartInit

\* word[6:0], word[14:12], word[31:25] and word[24:20] of a word
OpcodeOf(word) == word[2] % 128

Funct3Of(word) == (word[2] \div 4096) % 8

Funct7Of(word) == word[1] \div 512

ShamtOf(word) == (word[1] \div 16) % 32

\* the word matches a row of the opcode dispatch table
TableRow(word) ==
    \/ OpcodeOf(word) = 3 /\ Funct3Of(word) \in {0, 1, 2, 4, 5}
    \/ OpcodeOf(word) = 35 /\ Funct3Of(word) \in {0, 1, 2}
    \/ OpcodeOf(word) = 19 /\ (Funct3Of(word) # 5 \/ Funct7Of(word) \in {0, 32})
    \/ OpcodeOf(word) = 51 /\ (Funct3Of(word) \in {1, 2, 3, 4, 6, 7} \/ Funct7Of(word) \in {0, 32})
    \/ OpcodeOf(word) = 99 /\ Funct3Of(word) \in {0, 1, 4, 5, 6, 7}
    \/ OpcodeOf(word) \in {103, 111, 55, 23, 15, 115}

\* C25: decode_instr of a word fails with InvalidInstruction exactly when
\* the word matches no row of the opcode table: an opcode outside the table,
\* or a known opcode with a funct3/funct7 combination the table does not
\* list.
C25_InvalidExactlyOffTable ==
    last.op = "decode" => (last.err = "InvalidInstruction" <=> ~TableRow(last.addr))

\* the standard encodings of the canonical instructions
CanonWord == [i \in Canon |-> Encode(i)]

\* C26: decoding the standard encoding of a canonical instruction yields
\* an instruction of the same operation with the same field values:
\* I/S/B/J immediates sign-extended, B and J immediates even, U immediates
\* word[31:12] << 12.
C26_DecodeEncode ==
    last.op = "decode"
        => \A i \in Canon :
               CanonWord[i] = last.addr => (last.err = "none" /\ last.val = i)

\* JAL x1,-32, BEQ x31,x31,-4096, LUI x5,0xDEADB000 or SRAI x1,x2,31 has
\* been decoded from its encoding
C26_Witness ==
    /\ last.op = "decode"
    /\ last.err = "none"
    /\ \/ /\ last.addr = W(\hFE1F, \hF0EF)
          /\ last.val = Instr("JumpAndLink", 1, 0, 0, P(-32))
       \/ /\ last.addr = W(\h81FF, \h8063)
          /\ last.val = Instr("BranchEqual", 0, 31, 31, P(-4096))
       \/ /\ last.addr = W(\hDEAD, \hB2B7)
          /\ last.val = Instr("LoadUpperImmediate", 5, 0, 0, W(\hDEAD, \hB000))
       \/ /\ last.addr = W(\h41F1, \h5093)
          /\ last.val = Instr("ShiftRightArithmeticImmediate", 1, 2, 0, P(31))

\* C27: two instructions compare equal exactly when they are the same
\* operation with the same field values; ADD x1,x2,x3 and SUB x1,x2,x3, or
\* LB and LW with equal fields, compare unequal.
C27_EqualityByOperation ==
    last.op = "eq" => (last.val.eq <=> last.val.a = last.val.b)

\* C28: a word with opcode 0010011 and funct3 = 001 decodes to SLLI with
\* imm = word[24:20] whatever its upper bits; with funct3 = 101 and
\* funct7 = 0000000 / 0100000 it decodes to SRLI / SRAI with
\* imm = word[24:20].
C28_ShiftImmediate ==
    (last.op = "decode" /\ OpcodeOf(last.addr) = 19)
        => /\ Funct3Of(last.addr) = 1
                => /\ last.err = "none"
                   /\ last.val.op = "ShiftLeftLogicalImmediate"
                   /\ last.val.imm = P(ShamtOf(last.addr))
           /\ (Funct3Of(last.addr) = 5 /\ Funct7Of(last.addr) \in {0, 32})
                => /\ last.err = "none"
                   /\ last.val.op = IF Funct7Of(last.addr) = 0
                                    THEN "ShiftRightLogicalImmediate"
                                    ELSE "ShiftRightArithmeticImmediate"
                   /\ last.val.imm = P(ShamtOf(last.addr))

(***************************************************************************)
(* A property of the steps of Spec over the words of the no-op opcodes     *)
(***************************************************************************)

\* C29: a word with opcode 0001111 (FENCE) or 1110011 (ECALL/EBREAK)
\* decodes without error to a no-op: when it has been executed no register
\* and no memory or peripheral state has changed.
C29_FenceEnvNoOp ==
    (Ran /\ OpcodeOf(last.word) \in {15, 115})
        => /\ last.err = "none"
           /\ hart.rf = pre.rf
           /\ hart.dmem = pre.dmem
           /\ hart.imem = pre.imem
           /\ hart.sim = pre.sim
           /\ hart.halt = pre.halt

\* FENCE or ECALL has been executed on a hart with x1 = 0x1000
C29_Witness ==
    /\ Ran
    /\ last.word \in {W(\h0FF0, \h000F), W(\h0000, \h0073)}
    /\ last.err = "none"
    /\ hart.rf[1] = P(4096)

(***************************************************************************)
(* The register cells driven directly: write, += and -= on a cell.  The    *)
(* mutable cell is hart.pc and the zero cell is hart.rf[0], each           *)
(* constructed with a value of the driver's.  `last` is the last call.     *)
(***************************************************************************)

\* the values the driver constructs and updates the cells with
CellValues == {Zero, P(1), P(-1), W(65536, 0)}

\* write, += and -= calls in a behaviour
MaxCellCalls == 2

\* MutableRegister(v) as hart.pc and Register(z) as hart.rf[0]:
\* Register.__init__ stores the value as it is
CellInit ==
    /\ \E v \in CellValues, z \in {Zero, W(65536, 0)} :
           hart = [HartInit EXCEPT !.pc = v, !.rf[0] = z]
    /\ pre = hart
    /\ last = Call("init", "none", Zero, 0, Zero, Zero)
    /\ pokes = 0
    /\ prog = Image(ProgAddiChain, <<>>)
    /\ run = [loaded |-> FALSE, clean |-> FALSE, steps |-> 0]

\* cell.write(value): MutableRegister.write on hart.pc, Register.write,
\* which stores nothing, on hart.rf[0]
CellWrite ==
    \E value \in CellValues, cell \in {"pc", "zero"} :
        /\ pokes < MaxCellCalls
        /\ hart' = IF cell = "pc" THEN [hart EXCEPT !.pc = MutableWrite(value)] ELSE hart
        /\ pre' = hart
        /\ last' = Call("cell_write", "none", Zero, 0, value, cell)
        /\ pokes' = pokes + 1
        /\ UNCHANGED <<prog, run>>

\* cell += other: Register.__iadd__, self.write(self + other)
CellIadd ==
    \E other \in CellValues, cell \in {"pc", "zero"} :
        /\ pokes < MaxCellCalls
        /\ hart' = IF cell = "pc" THEN PcIadd(hart, other) ELSE hart
        /\ pre' = hart
        /\ last' = Call("cell_iadd", "none", Zero, 0, other, cell)
        /\ pokes' = pokes + 1
        /\ UNCHANGED <<prog, run>>

\* cell -= other: Register.__isub__, self.write(self - other)
CellIsub ==
    \E other \in CellValues, cell \in {"pc", "zero"} :
        /\ pokes < MaxCellCalls
        /\ hart' = IF cell = "pc"
                   THEN [hart EXCEPT !.pc = MutableWrite(RegSub(hart.pc, other))]
                   ELSE hart
        /\ pre' = hart
        /\ last' = Call("cell_isub", "none", Zero, 0, other, cell)
        /\ pokes' = pokes + 1
        /\ UNCHANGED <<prog, run>>

CellNext ==
    \/ CellWrite
    \/ CellIadd
    \/ CellIsub

SpecCell == CellInit /\ [][CellNext]_vars

(***************************************************************************)
(* Properties of the register cells                                        *)
(***************************************************************************)

CellTypeOK ==
    /\ last.op \in {"init", "cell_write", "cell_iadd", "cell_isub"}
    /\ pokes \in 0 .. MaxCellCalls

\* a value in [0, 2^32)
InRange(value) == value[1] \in 0 .. LIMB - 1 /\ value[2] \in 0 .. LIMB - 1

\* C30: read() of a cell, the zero cell or a mutable cell, constructed
\* with any integer and after any writes, += and -=, is in [0, 2^32).
C30_ReadInRange == InRange(hart.pc) /\ InRange(hart.rf[0])

\* C31: on a mutable cell write(v) followed by read() returns
\* v & 0xFFFFFFFF, for a negative v and a v wider than 32 bits too, and
\* MutableRegister(0) minus 1 is 0xFFFFFFFF; on the zero cell write(v)
\* leaves the value read unchanged.
C31_WriteThenReadMasked ==
    /\ (last.op = "cell_write" /\ last.val = "pc")
          => hart.pc = <<last.data[1] % LIMB, last.data[2]>>
    /\ (last.op = "cell_write" /\ last.val = "zero")
          => hart.rf[0] = pre.rf[0]
    /\ (last.op = "cell_isub" /\ last.val = "pc" /\ pre.pc = Zero /\ last.data = P(1))
          => hart.pc = W(\hFFFF, \hFFFF)

\* 0xFFFFFFFF + 1 has been written to a mutable cell that held another
\* value, or -1 has
C31_Witness ==
    /\ last.op = "cell_write"
    /\ last.val = "pc"
    /\ pre.pc # Zero
    /\ \/ last.data = W(65536, 0) /\ hart.pc = Zero
       \/ last.data = P(-1) /\ hart.pc = W(\hFFFF, \hFFFF) /\ pre.pc = P(1)

(***************************************************************************)
(* Instructions constructed from frames and executed on a hart whose       *)
(* registers the driver has set, as the instruction tests do:              *)
(* hart.rf[1] = a; hart.rf[2] = b; instr.exec(hart).  `last` is the last   *)
(* operation as in Spec, `pre` the hart before it.                         *)
(***************************************************************************)

\* exec() calls in a behaviour
MaxExecs == 1

\* a hart as built, then hart.rf[1] = a and hart.rf[2] = b
ExecInit ==
    /\ \E a \in {Zero, P(1), P(10), P(-5), P(-48), W(\hFFFF, \hFFFF), W(\h8000, 0),
                 W(\hF000, 0), W(\hFF00, \hFF00)},
          b \in {Zero, P(1), P(4), P(7), P(32), P(33), P(-7), W(\hFFFF, \hFFFF)} :
           hart = [HartInit EXCEPT !.rf = RfSet(RfSet(@, 1, a), 2, b)]
    /\ pre = hart
    /\ last = Op("init", "none", Zero, Nop)
    /\ pokes = 0
    /\ prog = Image(ProgAddiChain, <<>>)
    /\ run = [loaded |-> FALSE, clean |-> FALSE, steps |-> 0]

\* instr.exec(hart) for an instruction constructed from a frame: the
\* register operations on x1 and x2 into x3, the immediate operations on x1
\* into x3 with immediates as signed numbers and as raw 12-bit fields, the
\* branches on x1 and x2, and JALR through x1 into x1 and into x3
ExecFrame ==
    \E instr \in
          {Instr(op, 3, 1, 2, Zero) :
              op \in {"Add", "Sub", "ShiftLeftLogical", "SetOnLessThan", "SetOnLessThanU",
                      "ExclusiveOr", "ShiftRightLogical", "ShiftRightArithmetic", "Or",
                      "And"}}
          \cup {Instr(op, 3, 1, 0, P(m)) :
                   op \in {"AddImmediate", "SetOnLessThanImmediate",
                           "SetOnLessThanImmediateU", "ExclusiveOrImmediate"},
                   m \in {-2048, -8, -5, -1, 0, 1, 2047, 4088, 4091, 4095}}
          \cup {Instr(op, 3, 1, 0, P(m)) :
                   op \in {"ShiftLeftLogicalImmediate", "ShiftRightLogicalImmediate",
                           "ShiftRightArithmeticImmediate"},
                   m \in {0, 1, 4, 31, 33}}
          \cup {Instr(op, 0, 1, 2, P(m)) : op \in BranchOps, m \in {-8, 8}}
          \cup {Instr("JumpAndLinkRegister", rd, 1, 0, P(m)) : rd \in {1, 3}, m \in {-3, 8}} :
        LET r == exec(hart, instr)
        IN  /\ pokes < MaxExecs
            /\ hart' = r.h
            /\ pre' = hart
            /\ last' = Op("exec", r.err, Zero, instr)
            /\ pokes' = pokes + 1
            /\ UNCHANGED <<prog, run>>

SpecExec == ExecInit /\ [][ExecFrame]_vars

(***************************************************************************)
(* Properties of the executed instructions                                 *)
(***************************************************************************)

ExecTypeOK ==
    /\ last.op \in {"init", "exec"}
    /\ last.err = "none"
    /\ pokes \in 0 .. MaxExecs
    /\ \A k \in RegIdx : InRange(hart.rf[k])
    /\ InRange(hart.pc)

\* the last operation executed an instruction of one of the classes ops
Did(ops) == last.op = "exec" /\ last.err = "none" /\ last.instr.op \in ops

\* the values of rs1 and rs2 before the instruction, and of rd after it
Rs1Value == pre.rf[last.instr.rs1]

Rs2Value == pre.rf[last.instr.rs2]

RdValue == hart.rf[last.instr.rd]

\* v mod 2^32, and the two's-complement signed value of x in [0, 2^32)
U32(v) == <<v[1] % LIMB, v[2]>>

Signed(x) == IF x[1] >= LIMB \div 2 THEN <<x[1] - LIMB, x[2]>> ELSE x

\* the immediate is a signed 12-bit number
SignedImm == last.instr.imm[1] \in {-1, 0} /\ ToInt(last.instr.imm) \in -2048 .. 2047

Flag(b) == IF b THEN P(1) ELSE Zero

\* C32: ADD, SUB and ADDI write rd with rs1 + rs2, rs1 - rs2 and rs1 + imm
\* reduced modulo 2^32, for imm in [-2048, 2047].
C32_AddSubModular ==
    /\ Did({"Add"}) => RdValue = U32(PAdd(Rs1Value, Rs2Value))
    /\ Did({"Sub"}) => RdValue = U32(PSub(Rs1Value, Rs2Value))
    /\ (Did({"AddImmediate"}) /\ SignedImm) => RdValue = U32(PAdd(Rs1Value, last.instr.imm))

\* the encodings of -5 and -7 have been added to the encoding of -12
C32_Witness ==
    /\ Did({"Add"})
    /\ Rs1Value = W(\hFFFF, \hFFFB)
    /\ Rs2Value = W(\hFFFF, \hFFF9)
    /\ RdValue = W(\hFFFF, \hFFF4)

\* C33: SLT and SLTI write 1 exactly when rs1 as a signed value is less
\* than the signed second operand, SLTU and SLTIU exactly when rs1 as an
\* unsigned value is less than the second operand as an unsigned 32-bit
\* value; else 0.
C33_SetOnLessThan ==
    /\ Did({"SetOnLessThan"}) => RdValue = Flag(PLt(Signed(Rs1Value), Signed(Rs2Value)))
    /\ (Did({"SetOnLessThanImmediate"}) /\ SignedImm)
          => RdValue = Flag(PLt(Signed(Rs1Value), last.instr.imm))
    /\ Did({"SetOnLessThanU"}) => RdValue = Flag(PLt(Rs1Value, Rs2Value))
    /\ (Did({"SetOnLessThanImmediateU"}) /\ SignedImm)
          => RdValue = Flag(PLt(Rs1Value, U32(last.instr.imm)))

\* SLT of -5 and 7 has given 1
C33_Witness ==
    /\ Did({"SetOnLessThan"})
    /\ Rs1Value = W(\hFFFF, \hFFFB)
    /\ Rs2Value = P(7)
    /\ RdValue = P(1)

\* x shifted left by s, right by s with zeros, and right by s with the sign
\* bit, in 32 bits, for x in [0, 2^32) and s in 0..31
Shl32(x, s) == U32(PShl(PMod2(x, WIDTH - s), s))

Shr32(x, s) == PShr(x, s)

Sra32(x, s) == U32(PShr(Signed(x), s))

\* C34: SLL, SRL and SRA shift by the value of rs2 & 0x1F, and SLLI, SRLI
\* and SRAI by imm & 0x1F: with 32 the result is rs1 unshifted and with 33
\* it is rs1 shifted by 1.
C34_ShiftAmountLow5 ==
    /\ Did({"ShiftLeftLogical"}) => RdValue = Shl32(Rs1Value, Rs2Value[2] % 32)
    /\ Did({"ShiftRightLogical"}) => RdValue = Shr32(Rs1Value, Rs2Value[2] % 32)
    /\ Did({"ShiftRightArithmetic"}) => RdValue = Sra32(Rs1Value, Rs2Value[2] % 32)
    /\ Did({"ShiftLeftLogicalImmediate"}) => RdValue = Shl32(Rs1Value, last.instr.imm[2] % 32)
    /\ Did({"ShiftRightLogicalImmediate"}) => RdValue = Shr32(Rs1Value, last.instr.imm[2] % 32)
    /\ Did({"ShiftRightArithmeticImmediate"})
          => RdValue = Sra32(Rs1Value, last.instr.imm[2] % 32)

\* the shift amount of the instruction executed, when it is in 0..31
ShiftAmount ==
    IF last.instr.op \in {"ShiftLeftLogical", "ShiftRightLogical", "ShiftRightArithmetic"}
    THEN Rs2Value ELSE last.instr.imm

\* C35: for shift amounts s in 0..31, SRAI and SRA write rs1 shifted right
\* by s with bit 31 replicated into the vacated bits, SRLI and SRL fill with
\* zeros, and SLLI and SLL discard the bits shifted past bit 31.
C35_ShiftFill ==
    (ShiftAmount[1] = 0 /\ ShiftAmount[2] \in 0 .. 31)
        => /\ Did({"ShiftRightArithmetic", "ShiftRightArithmeticImmediate"})
                 => RdValue = Sra32(Rs1Value, ShiftAmount[2])
           /\ Did({"ShiftRightLogical", "ShiftRightLogicalImmediate"})
                 => RdValue = Shr32(Rs1Value, ShiftAmount[2])
           /\ Did({"ShiftLeftLogical", "ShiftLeftLogicalImmediate"})
                 => RdValue = Shl32(Rs1Value, ShiftAmount[2])

\* SRAI of 0x80000000 by 1 has given 0xC0000000, or SRAI of 0xF0000000 by 4
\* has given 0xFF000000
C35_Witness ==
    /\ Did({"ShiftRightArithmeticImmediate"})
    /\ \/ Rs1Value = W(\h8000, 0) /\ last.instr.imm = P(1) /\ RdValue = W(\hC000, 0)
       \/ Rs1Value = W(\hF000, 0) /\ last.instr.imm = P(4) /\ RdValue = W(\hFF00, 0)

\* the number a raw 12-bit field stands for
FieldValue(imm) == IF ToInt(imm) >= 2048 THEN P(ToInt(imm) - 4096) ELSE imm

\* C36: ADDI, SLTI and XORI executed on a frame whose imm is the raw 12-bit
\* field (0..4095) treat it as the sign-extended number: ADDI with 0xFFB on
\* 10 gives 5.
C36_RawImmediate ==
    (last.instr.imm[1] = 0 /\ last.instr.imm[2] \in 0 .. 4095)
        => /\ Did({"AddImmediate"})
                 => RdValue = U32(PAdd(Rs1Value, FieldValue(last.instr.imm)))
           /\ Did({"SetOnLessThanImmediate"})
                 => RdValue = Flag(PLt(Signed(Rs1Value), FieldValue(last.instr.imm)))
           /\ Did({"ExclusiveOrImmediate"})
                 => RdValue = PXor(Rs1Value, U32(FieldValue(last.instr.imm)))

\* the condition of the branch executed, on the register values before it
Condition ==
    CASE last.instr.op = "BranchEqual" -> Rs1Value = Rs2Value
      [] last.instr.op = "BranchNotEqual" -> Rs1Value # Rs2Value
      [] last.instr.op = "BranchOnLessThan" -> PLt(Signed(Rs1Value), Signed(Rs2Value))
      [] last.instr.op = "BranchOnGreaterThanEqual" ->
             ~PLt(Signed(Rs1Value), Signed(Rs2Value))
      [] last.instr.op = "BranchOnLessThanU" -> PLt(Rs1Value, Rs2Value)
      [] last.instr.op = "BranchOnGreaterThanEqualU" -> ~PLt(Rs1Value, Rs2Value)
      [] OTHER -> FALSE

\* C37: a branch (with a non-zero offset) changes the pc, to pc + imm,
\* exactly when its condition holds on the register values, and never
\* changes a general register.
C37_BranchCondition ==
    (Did(BranchOps) /\ last.instr.imm # Zero)
        => /\ hart.pc # pre.pc <=> Condition
           /\ Condition => hart.pc = U32(PAdd(pre.pc, last.instr.imm))
           /\ hart.rf = pre.rf

\* with rs1 = 0xFFFFFFFF and rs2 = 1, BLT has been taken, or BLTU has not
\* been
C37_Witness ==
    /\ Rs1Value = W(\hFFFF, \hFFFF)
    /\ Rs2Value = P(1)
    /\ \/ Did({"BranchOnLessThan"}) /\ hart.pc = U32(PAdd(pre.pc, last.instr.imm))
       \/ Did({"BranchOnLessThanU"}) /\ hart.pc = pre.pc

\* C38: JALR with rd = rs1 (not x0) computes its target from the value rs1
\* held before the instruction: afterwards the pc is (old rs1 + imm) mod
\* 2^32 with bit 0 cleared and rd is the old pc + 4.
C38_JalrSameRegister ==
    (Did({"JumpAndLinkRegister"}) /\ last.instr.rd = last.instr.rs1 /\ last.instr.rd # 0)
        => /\ hart.pc = PAnd(U32(PAdd(Rs1Value, last.instr.imm)), W(\hFFFF, \hFFFE))
           /\ RdValue = U32(PAdd(pre.pc, P(4)))

(***************************************************************************)
(* A property of the pc in Spec                                            *)
(***************************************************************************)

\* C40: from pc = 0, in every state reached by executing decoded
\* instructions the pc is even: decoded branch and JAL offsets are even and
\* JALR clears bit 0 of its target.
C40_PcEven == hart.pc[2] % 2 = 0

\* a JALR has been executed for which the register value it read plus imm
\* is odd, and it has moved the pc
C40_Witness ==
    /\ Ran
    /\ last.err = "none"
    /\ last.instr.op = "JumpAndLinkRegister"
    /\ (hart.rf[last.instr.rs1][2] + last.instr.imm[2]) % 2 = 1
    /\ hart.pc # pre.pc

====
